---- MODULE Spec2Model ----
(***************************************************************************)
(* A model of training/grpo_trainer.py: the grouped repeat sampler, the    *)
(* clip-deduplicating retrieval ranker, the multi-round rollout loop and   *)
(* the reward / group-advantage pipeline of GRPOTrainer.                   *)
(*                                                                         *)
(* Eight specifications share the module:                                  *)
(*   SamplerSpec  two RepeatRandomSampler instances and their iterations   *)
(*   SearchSpec   one call of search() on drawn inputs                     *)
(*   RolloutSpec  _generate_and_score_completions: rounds, then rewards    *)
(*   TrainSpec    the workers of one training run: deal, gather, normalise *)
(*   EvalSpec     a training run with evaluation enabled                   *)
(*   ParseSpec    one rollout round on any short generated text            *)
(*   MaskSpec     the response mask of one row of token ids                *)
(*   LossSpec     compute_loss on a drawn batch                            *)
(* Every specification leaves the other subsystems' variables untouched.   *)
(***************************************************************************)
EXTENDS Integers, Sequences, FiniteSets, TLC

VARIABLES
    sp,         \* sampler arguments [N, G, B, K]
    seed,       \* seed[s]: the seed argument of sampler instance s (None or an int)
    gen,        \* gen[s]: state of instance s's local torch.Generator
    out,        \* out[s]: the index lists yielded by instance s, one per iteration
    slen,       \* slen[s]: what len(sampler) returned for instance s (None: not asked)
    s_hist,     \* search(): the caller's visited-clip set (history_clip)
    s_call,     \* search(): the finished call (a list of at most one record)
    r_cfg,      \* rollout: [R = search_rounds, cost = action_cost in tenths, n = len(inputs)]
    r_pc,       \* rollout: "gen", "handle", "score", "done" or "aborted"
    r_round,    \* rollout: the loop variable i of `for i in range(search_rounds)`
    r_idx,      \* rollout: the episode the inner loop (or the reward loop) is at
    r_output,   \* rollout: output[idx], the decoded texts of the current round
    ep,         \* rollout: the per-episode lists (conversations, actions, ...)
    t_cfg,      \* trainer: the arguments [P, pd, pde, eval, ga, G, K, N, Ne, seed]
    t_pc,       \* trainer: "new", "error", "train" or "end"
    t_stream,   \* trainer: t_stream[r], the index stream of worker r's train sampler
    t_estream,  \* trainer: t_estream[r], the index stream of worker r's eval sampler
    t_step,     \* trainer: self._step, the calls of _prepare_inputs so far
    t_local,    \* trainer: t_local[r], worker r's episodes of the current call
    t_gathered, \* trainer: the gathered episodes of the last generating call
    t_adv,      \* trainer: their advantages, each multiplied by G
    t_std,      \* trainer: std_grouped_rewards per episode, as the fraction under its root
    t_out,      \* trainer: t_out[r], the batch the last call returned to worker r
    t_buf,      \* trainer: t_buf[r], worker r's _buffered_inputs
    t_mode,     \* trainer: "eval" while control.should_evaluate is set, else "train"
    t_estep,    \* trainer: the batches the evaluation loop has consumed
    t_error,    \* trainer: the error construction raised, if any
    t_log,      \* trainer: one record per finished call of _prepare_inputs
    m_row,      \* mask: responses[i], the token ids of one episode
    m_plen,     \* mask: prompt_length
    m_cut,      \* mask: the tokens that [:, -max_tokens:] cut off the front of the row
    m_mask,     \* mask: response_masks[i] (a list of at most one row)
    l_in,       \* loss: the trainer's settings and the inputs of compute_loss
    l_out       \* loss: what compute_loss computed (a list of at most one record)

samplerVars == <<sp, seed, gen, out, slen>>
searchVars == <<s_hist, s_call>>
rolloutVars == <<r_cfg, r_pc, r_round, r_idx, r_output, ep>>

trainVars == <<t_cfg, t_pc, t_stream, t_estream, t_step, t_local, t_gathered, t_adv, t_std, t_out, t_buf,
               t_mode, t_estep, t_error, t_log>>
maskVars == <<m_row, m_plen, m_cut, m_mask>>
lossVars == <<l_in, l_out>>

vars == <<sp, seed, gen, out, slen, s_hist, s_call,
          r_cfg, r_pc, r_round, r_idx, r_output, ep,
          t_cfg, t_pc, t_stream, t_estream, t_step, t_local, t_gathered, t_adv, t_std, t_out,
          t_buf, t_mode, t_estep, t_error, t_log,
          m_row, m_plen, m_cut, m_mask, l_in, l_out>>

----------------------------------------------------------------------------
(* Bounds of the model *)

MaxN == 4          \* dataset sizes 1..MaxN
MaxG == 2          \* mini_repeat_count 1..MaxG
MaxB == 3          \* batch_size 1..MaxB
MaxK == 2          \* repeat_count 1..MaxK
MaxSeed == 2       \* seeds 0..MaxSeed
MaxEpochs == 2     \* iterations of one sampler instance
ExtraNodes == 1    \* memory nodes beyond one per clip (nodes sharing a clip)
MaxQuery == 2      \* distinct query embeddings 1..MaxQuery
MaxRounds == 3     \* search_rounds 1..MaxRounds
MaxBatch == 2      \* episodes per rollout batch 1..MaxBatch
MaxWork == 6       \* search_rounds * episodes of one rollout
MaxCost == 2       \* action_cost 1..MaxCost, in tenths
MaxGlobal == 4     \* num_processes * per_device_train_batch_size
MaxGA == 2         \* gradient_accumulation_steps 1..MaxGA
MaxBuffered == 6   \* num_processes * per_device_train_batch_size * gradient_accumulation_steps
MaxSteps == 4      \* the calls of _prepare_inputs a run makes at most
MaxEvalN == 2      \* the eval dataset holds 1..MaxEvalN prompts
MaxTextLen == 5    \* tokens of a generated text in ParseSpec 0..MaxTextLen
MaxIds == 5        \* token ids an episode holds behind its prompt 0..MaxIds (and one closing id)
MaxCut == 1        \* token ids max_tokens cuts off the front of a row 0..MaxCut
MaxLossLen == 2    \* logits_to_keep of a batch given to compute_loss 1..MaxLossLen

\* seed = None (seeds are non-negative integers)
None == 0 - 1

\* the two sampler instances (two workers build one each)
Instances == {1, 2}

----------------------------------------------------------------------------
(* Sequence helpers *)

Min(a, b) == IF a < b THEN a ELSE b

Repeat(x, n) == [i \in 1..n |-> x]

RECURSIVE Flatten(_)
Flatten(ss) == IF ss = <<>> THEN <<>> ELSE Head(ss) \o Flatten(Tail(ss))

Range(s) == {s[i] : i \in DOMAIN s}

Count(s, x) == Cardinality({i \in DOMAIN s : s[i] = x})

----------------------------------------------------------------------------
(* torch.Generator and torch.randperm: a seeded pseudo-random generator.   *)
(* The generator is a small linear congruential generator; randperm is a   *)
(* Fisher-Yates shuffle of 0..n-1 that draws from it and advances it.      *)

DefaultGeneratorState == 0

GenStep(g) == (5 * g + 3) % 32

SeedPerInstance(sd, s) == IF sd = None THEN DefaultGeneratorState ELSE sd + s

\* self.generator = torch.Generator(); if seed is not None: manual_seed(seed)
\* (s names the sampler instance; the seed does not depend on it)
ManualSeed(sd, s) == IF sd = None THEN DefaultGeneratorState ELSE sd

Swap(p, i, j) == [p EXCEPT ![i] = p[j], ![j] = p[i]]

RECURSIVE Shuffle(_, _, _)
Shuffle(p, i, g) ==
    IF i >= Len(p) THEN [perm |-> p, gen |-> g]
    ELSE LET g2 == GenStep(g)
             j == i + (g2 % (Len(p) - i + 1))
         IN Shuffle(Swap(p, i, j), i + 1, g2)

\* torch.randperm(n, generator=g).tolist(): [perm, gen]
RandPerm(n, g) == Shuffle([i \in 1..n |-> i - 1], 1, g)

----------------------------------------------------------------------------
(* The values a subsystem's variables keep in the specifications of the    *)
(* other subsystems                                                        *)

SamplerIdle ==
    /\ sp = [N |-> 1, G |-> 1, B |-> 1, K |-> 1]
    /\ seed = [s \in Instances |-> None]
    /\ gen = [s \in Instances |-> DefaultGeneratorState]
    /\ out = [s \in Instances |-> <<>>]
    /\ slen = [s \in Instances |-> None]

SearchIdle ==
    /\ s_hist = {}
    /\ s_call = <<>>

RolloutIdle ==
    /\ r_cfg = [R |-> 1, cost |-> 0, n |-> 1]
    /\ r_pc = "idle"
    /\ r_round = 0
    /\ r_idx = 0
    /\ r_output = <<>>
    /\ ep = <<>>

TrainIdle ==
    /\ t_cfg = [P |-> 1, pd |-> 1, pde |-> 1, eval |-> FALSE, ga |-> 1, G |-> 1,
                K |-> 1, N |-> 1, Ne |-> 1, seed |-> None]
    /\ t_pc = "idle"
    /\ t_stream = <<>>
    /\ t_estream = <<>>
    /\ t_step = 0
    /\ t_local = <<>>
    /\ t_gathered = <<>>
    /\ t_adv = <<>>
    /\ t_std = <<>>
    /\ t_out = <<>>
    /\ t_buf = <<>>
    /\ t_mode = "train"
    /\ t_estep = 0
    /\ t_error = <<>>
    /\ t_log = <<>>

MaskIdle ==
    /\ m_row = <<>>
    /\ m_plen = 0
    /\ m_cut = 0
    /\ m_mask = <<>>

LossIdle ==
    /\ l_in = <<>>
    /\ l_out = <<>>

----------------------------------------------------------------------------
(* RepeatRandomSampler.__iter__ and __len__ *)

\* [indexes[i : i + batch_size] for i in range(0, len(indexes), batch_size)]
Chunks(indexes, B) ==
    [c \in 1..((Len(indexes) + B - 1) \div B) |->
        SubSeq(indexes, (c - 1) * B + 1, Min(c * B, Len(indexes)))]

KeepShortChunks(chs, B) == chs

\* [chunk for chunk in indexes if len(chunk) == batch_size]
FullChunks(chs, B) == SelectSeq(chs, LAMBDA ch : Len(ch) = B)

EmitChunkInterleaved(chunk, G, K) == Flatten(Repeat(chunk, K * G))

\* for _ in range(repeat_count): for index in chunk:
\*     for _ in range(mini_repeat_count): yield index
EmitChunk(chunk, G, K) ==
    Flatten(Repeat(Flatten([j \in 1..Len(chunk) |-> Repeat(chunk[j], G)]), K))

\* list(sampler) for the permutation `perm`
SamplerIterate(perm, G, B, K) ==
    LET full == FullChunks(Chunks(perm, B), B)
    IN Flatten([c \in 1..Len(full) |-> EmitChunk(full[c], G, K)])

SamplerLenWithoutRepeats(N, G, K) == N * G

\* RepeatRandomSampler.__len__
SamplerLen(N, G, K) == N * G * K

----------------------------------------------------------------------------
(* The video graph and search(): the clip-deduplicating retrieval ranker   *)

\* if len(_clip) == 5: break
MaxClipsPerSearch == 5

NumClips == MaxClipsPerSearch + 1

Clips == 1..NumClips

Nodes == 1..(NumClips + ExtraNodes)

\* video_graph.nodes[node_id].metadata['timestamp']
ClipOf(n) == ((n - 1) % NumClips) + 1

\* sorted(video_graph.text_nodes_by_clip[clip_id])
RECURSIVE NodesUpTo(_, _)
NodesUpTo(n, clip) ==
    IF n = 0 THEN <<>>
    ELSE IF ClipOf(n) = clip THEN Append(NodesUpTo(n - 1, clip), n)
    ELSE NodesUpTo(n - 1, clip)

ClipNodes(clip) == NodesUpTo(NumClips + ExtraNodes, clip)

\* len(video_graph.nodes[n].metadata['contents'][0]) after translate()
ContentLen(n) == n % 3

\* the similarity of node n to the embedding of query q
Score(q, n) == (q * n) % 7

\* video_graph.search_text_nodes(query_embedding, threshold): the nodes of
\* `present` (those above the threshold) with their scores, in node order
RECURSIVE FoundUpTo(_, _, _)
FoundUpTo(n, q, present) ==
    IF n = 0 THEN <<>>
    ELSE IF n \in present
         THEN Append(FoundUpTo(n - 1, q, present), <<n, Score(q, n)>>)
         ELSE FoundUpTo(n - 1, q, present)

SearchTextNodes(q, present) == FoundUpTo(NumClips + ExtraNodes, q, present)

\* insert x behind every element whose score is >= x's (stable, descending)
RECURSIVE InsertByScore(_, _)
InsertByScore(sorted, x) ==
    IF sorted = <<>> THEN <<x>>
    ELSE IF Head(sorted)[2] >= x[2]
         THEN <<Head(sorted)>> \o InsertByScore(Tail(sorted), x)
         ELSE <<x>> \o sorted

\* sorted(nodes, key=lambda x: x[1], reverse=True)
RECURSIVE SortByScore(_)
SortByScore(nodes) ==
    IF nodes = <<>> THEN <<>>
    ELSE InsertByScore(SortByScore(SubSeq(nodes, 1, Len(nodes) - 1)),
                       nodes[Len(nodes)])

\* len(str(clip_id))
RECURSIVE StrLen(_)
StrLen(n) == IF n < 10 THEN 1 ELSE 1 + StrLen(n \div 10)

RECURSIVE SumLens(_)
SumLens(ns) == IF ns = <<>> THEN 0 ELSE ContentLen(Head(ns)) + SumLens(Tail(ns))

\* len('\n'.join(content))
TextLen(clip) ==
    LET ns == ClipNodes(clip)
    IN SumLens(ns) + (IF Len(ns) = 0 THEN 0 ELSE Len(ns) - 1)

\* len('ID=' + str(clip_id) + '\n' + text + '\n\n')
BlockLen(clip) == 3 + StrLen(clip) + 1 + TextLen(clip) + 2

\* 'ID=' + str(clip_id) + '\n' + text + '\n\n', kept as the clip and its length
Block(clip) == [id |-> clip, len |-> BlockLen(clip)]

\* len(resp) - resp_len for a resp that holds the given blocks after its header
RECURSIVE BodyLen(_)
BodyLen(blocks) == IF blocks = <<>> THEN 0 ELSE Head(blocks).len + BodyLen(Tail(blocks))

RECURSIVE WalkIgnoringHistory(_, _, _, _, _)
WalkIgnoringHistory(nodes, seen, hist, raw, resp) ==
    IF nodes = <<>> \/ Cardinality(seen) = MaxClipsPerSearch
    THEN [history |-> hist, raw_data |-> raw, resp |-> resp]
    ELSE LET clip == ClipOf(Head(nodes)[1])
         IN IF clip \in seen
            THEN WalkIgnoringHistory(Tail(nodes), seen, hist, raw, resp)
            ELSE WalkIgnoringHistory(Tail(nodes), seen \cup {clip}, hist \cup {clip},
                      Append(raw, [clip_id |-> clip, memory |-> ClipNodes(clip)]),
                      Append(resp, Block(clip)))

\* the loop `for node in nodes:` of search(), from the state (seen = _clip,
\* hist = history_clip, raw = raw_data, resp = the blocks added to resp)
RECURSIVE Walk(_, _, _, _, _)
Walk(nodes, seen, hist, raw, resp) ==
    IF nodes = <<>> \/ Cardinality(seen) = MaxClipsPerSearch
    THEN [history |-> hist, raw_data |-> raw, resp |-> resp]
    ELSE LET clip == ClipOf(Head(nodes)[1])
         IN IF clip \in seen
            THEN Walk(Tail(nodes), seen, hist, raw, resp)
            ELSE IF clip \in hist
            THEN Walk(Tail(nodes), seen \cup {clip}, hist, raw, resp)
            ELSE Walk(Tail(nodes), seen \cup {clip}, hist \cup {clip},
                      Append(raw, [clip_id |-> clip, memory |-> ClipNodes(clip)]),
                      Append(resp, Block(clip)))

NoResultsBelowTen(blocks) == BodyLen(blocks) < 10

\* line 104: len(resp) < resp_len + 5
NoResults(blocks) == BodyLen(blocks) < 5

\* search(query, video_graph, history_clip): the returned
\* (resp, history_clip, raw_data); resp is kept as its ID= blocks and
\* whether the 'No results found.' placeholder follows them
Search(q, present, hist) ==
    LET w == Walk(SortByScore(SearchTextNodes(q, present)), {}, hist, <<>>, <<>>)
    IN [history  |-> w.history,
        raw_data |-> w.raw_data,
        blocks   |-> w.resp,
        noResults |-> NoResults(w.resp)]

----------------------------------------------------------------------------
(* SearchSpec: one call of search() on a drawn visited set, query and      *)
(* similarity result                                                       *)

SearchInit ==
    /\ SamplerIdle
    /\ RolloutIdle
    /\ TrainIdle
    /\ MaskIdle
    /\ LossIdle
    /\ s_hist \in SUBSET Clips
    /\ s_call = <<>>

CallSearch(q, present) ==
    /\ s_call = <<>>
    /\ LET r == Search(q, present, s_hist)
       IN /\ s_call' = <<[query |-> q, present |-> present, histIn |-> s_hist,
                          ret |-> r]>>
          /\ s_hist' = r.history
    /\ UNCHANGED <<samplerVars, rolloutVars, trainVars, maskVars, lossVars>>

SearchNext == \E q \in 1..MaxQuery, present \in SUBSET Nodes : CallSearch(q, present)

SearchSpec == SearchInit /\ [][SearchNext]_vars

\* the clip ids of the evidence records of the finished call
RetClips(c) == [i \in 1..Len(c.ret.raw_data) |-> c.ret.raw_data[i].clip_id]

\* the distinct clips that have a node above the threshold
FoundClips(c) == {ClipOf(n) : n \in c.present}

----------------------------------------------------------------------------
(* C6: the evidence records of one call never hold two records with the   *)
(* same clip id, and never a clip id of the visited set passed in.         *)

C6_NoDuplicateNoVisited ==
    \A k \in 1..Len(s_call) :
        LET c == s_call[k]
            ids == RetClips(c)
        IN /\ \A i, j \in 1..Len(ids) : ids[i] = ids[j] => i = j
           /\ \A i \in 1..Len(ids) : ids[i] \notin c.histIn

\* a call whose ranking held two nodes of one new clip and a visited clip,
\* and that returned evidence
C6_Witness ==
    \E k \in 1..Len(s_call) :
        LET c == s_call[k]
        IN /\ \E n, m \in c.present :
                n # m /\ ClipOf(n) = ClipOf(m) /\ ClipOf(n) \notin c.histIn
           /\ \E n \in c.present : ClipOf(n) \in c.histIn
           /\ Len(c.ret.raw_data) >= 2

----------------------------------------------------------------------------
(* C7: a clip skipped as already visited does not count towards the cap:   *)
(* search returns exactly min(5, number of distinct clips with a node      *)
(* above the threshold that are not in the visited set) records.           *)

C7_CapCountsNewClipsOnly ==
    \A k \in 1..Len(s_call) :
        LET c == s_call[k]
        IN Len(c.ret.raw_data) =
              Min(MaxClipsPerSearch, Cardinality(FoundClips(c) \ c.histIn))

----------------------------------------------------------------------------
(* C20: search returns a text with the 'No results found.' placeholder if  *)
(* and only if no clip was accepted in that call (the raw evidence list is *)
(* empty); whenever a clip is accepted the placeholder is absent and the   *)
(* text holds one 'ID=<clip_id>' block per accepted clip.                  *)

C20_PlaceholderIffNothingAccepted ==
    \A k \in 1..Len(s_call) :
        LET r == s_call[k].ret
        IN /\ r.noResults <=> (r.raw_data = <<>>)
           /\ r.raw_data # <<>> =>
                 /\ ~r.noResults
                 /\ Len(r.blocks) = Len(r.raw_data)
                 /\ \A i \in 1..Len(r.raw_data) : r.blocks[i].id = r.raw_data[i].clip_id

\* a call that skipped a visited clip and accepted a single clip whose
\* block is the shortest there is (a one-digit id and an empty text)
C20_Witness ==
    \E k \in 1..Len(s_call) :
        LET c == s_call[k]
        IN /\ Len(c.ret.raw_data) = 1
           /\ c.ret.blocks[1].len = 7
           /\ ~c.ret.noResults
           /\ \E n \in c.present : ClipOf(n) \in c.histIn

----------------------------------------------------------------------------
(* SamplerSpec: two sampler instances built with the same arguments        *)

SamplerParams == [N : 1..MaxN, G : 1..MaxG, B : 1..MaxB, K : 1..MaxK]

SamplerInit ==
    /\ SearchIdle
    /\ RolloutIdle
    /\ TrainIdle
    /\ MaskIdle
    /\ LossIdle
    /\ sp \in SamplerParams
    /\ seed \in [Instances -> (0..MaxSeed) \cup {None}]
    /\ gen = [s \in Instances |-> ManualSeed(seed[s], s)]
    /\ out = [s \in Instances |-> <<>>]
    /\ slen = [s \in Instances |-> None]

\* one full pass over iter(sampler) of instance s
SamplerIter(s) ==
    /\ Len(out[s]) < MaxEpochs
    /\ LET r == RandPerm(sp.N, gen[s])
       IN /\ gen' = [gen EXCEPT ![s] = r.gen]
          /\ out' = [out EXCEPT ![s] =
                        Append(@, SamplerIterate(r.perm, sp.G, sp.B, sp.K))]
    /\ UNCHANGED <<sp, seed, slen>>
    /\ UNCHANGED <<searchVars, rolloutVars, trainVars, maskVars, lossVars>>

\* len(sampler) on instance s
SamplerLenCall(s) ==
    /\ slen[s] = None
    /\ slen' = [slen EXCEPT ![s] = SamplerLen(sp.N, sp.G, sp.K)]
    /\ UNCHANGED <<sp, seed, gen, out>>
    /\ UNCHANGED <<searchVars, rolloutVars, trainVars, maskVars, lossVars>>

SamplerNext ==
    \/ \E s \in Instances : SamplerIter(s)
    \/ \E s \in Instances : SamplerLenCall(s)

SamplerSpec == SamplerInit /\ [][SamplerNext]_vars

----------------------------------------------------------------------------
(* C1: one iteration yields floor(N/B)*B*G*K indices, and every aligned    *)
(* run of G consecutive elements (positions j*G .. j*G+G-1) is constant.   *)

AlignedRunsConstant(seq, G) ==
    \A j \in 0..((Len(seq) \div G) - 1) :
        \A m \in 1..G : seq[j * G + m] = seq[j * G + 1]

C1_LengthAndRuns ==
    \A s \in Instances : \A e \in 1..Len(out[s]) :
        /\ Len(out[s][e]) = (sp.N \div sp.B) * sp.B * sp.G * sp.K
        /\ AlignedRunsConstant(out[s][e], sp.G)

\* an iteration that dropped a remainder and yielded runs longer than one
C1_Witness ==
    \E s \in Instances :
        /\ Len(out[s]) >= 1
        /\ sp.N % sp.B # 0
        /\ sp.G >= 2
        /\ sp.K >= 2
        /\ Len(out[s][1]) >= 2 * sp.G * sp.K

----------------------------------------------------------------------------
(* C3: two instances with the same non-None seed over data of the same     *)
(* size (and the same G, B, K) yield identical first iterations.           *)

C3_SameSeedSameSequence ==
    \A s, t \in Instances :
        (/\ seed[s] # None
         /\ seed[s] = seed[t]
         /\ Len(out[s]) >= 1
         /\ Len(out[t]) >= 1)
        => out[s][1] = out[t][1]

\* both instances iterated with a shared seed, over at least two chunks
C3_Witness ==
    /\ seed[1] # None
    /\ seed[1] = seed[2]
    /\ Len(out[1]) >= 1
    /\ Len(out[2]) >= 1
    /\ Len(out[1][1]) >= 2 * sp.B * sp.G * sp.K
    /\ sp.N >= 3

----------------------------------------------------------------------------
(* C18: len(sampler) is N*G*K for every N, G, B, K, also when B does not   *)
(* divide N and an iteration yields fewer indices; it is never smaller     *)
(* than the number of indices an iteration yields and equals it iff B      *)
(* divides N.                                                              *)

C18_LenIgnoresDroppedChunk ==
    \A s \in Instances :
        slen[s] # None =>
            /\ slen[s] = sp.N * sp.G * sp.K
            /\ \A e \in 1..Len(out[s]) :
                  /\ slen[s] >= Len(out[s][e])
                  /\ (slen[s] = Len(out[s][e])) <=> (sp.N % sp.B = 0)

\* len() was asked of an instance whose iteration dropped a remainder and
\* yielded something, with repeats
C18_Witness ==
    \E s \in Instances :
        /\ slen[s] # None
        /\ Len(out[s]) >= 1
        /\ sp.N % sp.B # 0
        /\ sp.K >= 2
        /\ Len(out[s][1]) > 0
        /\ slen[s] > Len(out[s][1])

----------------------------------------------------------------------------
(* C19: the sampler's output is, for each complete chunk of B permutation  *)
(* entries taken in permutation order, K consecutive identical copies of   *)
(* the block in which each chunk index appears G consecutive times; the    *)
(* indices of an incomplete final chunk never appear, and every other      *)
(* dataset index appears exactly G*K times in the whole sequence.          *)

\* the generator state of instance s before its e-th iteration
RECURSIVE GenBefore(_, _)
GenBefore(s, e) ==
    IF e = 1 THEN ManualSeed(seed[s], s)
    ELSE RandPerm(sp.N, GenBefore(s, e - 1)).gen

\* the permutation the e-th iteration of instance s drew
PermOf(s, e) == RandPerm(sp.N, GenBefore(s, e)).perm

C19_ChunkStructure ==
    \A s \in Instances : \A e \in 1..Len(out[s]) :
        LET seq == out[s][e]
            perm == PermOf(s, e)
            nChunks == sp.N \div sp.B
            block == sp.B * sp.G
        IN /\ Len(seq) = nChunks * sp.K * block
           /\ \A c \in 0..(nChunks - 1) : \A k \in 0..(sp.K - 1) :
                 \A j \in 0..(sp.B - 1) : \A g \in 1..sp.G :
                    seq[(c * sp.K + k) * block + j * sp.G + g] = perm[c * sp.B + j + 1]
           /\ \A x \in 0..(sp.N - 1) :
                 LET at == CHOOSE q \in 1..sp.N : perm[q] = x
                 IN Count(seq, x) = IF at <= nChunks * sp.B THEN sp.G * sp.K ELSE 0

\* an iteration with repeats of both kinds over a chunk of two indices that
\* dropped the index of an incomplete final chunk
C19_Witness ==
    \E s \in Instances :
        /\ Len(out[s]) >= 1
        /\ sp.G >= 2
        /\ sp.K >= 2
        /\ sp.B >= 2
        /\ sp.N % sp.B # 0
        /\ Len(out[s][1]) = sp.B * sp.G * sp.K
        /\ \E x \in 0..(sp.N - 1) : Count(out[s][1], x) = 0

----------------------------------------------------------------------------
(* Texts.  A text is a sequence of tokens (strings): the markers "<think>", *)
(* "</think>", "[", "]" and "<|im_start|>" are tokens of their own, every   *)
(* other token is a run of characters that holds none of them.              *)

RECURSIVE LastIndexOf(_, _)
LastIndexOf(s, tok) ==
    IF s = <<>> THEN 0
    ELSE IF s[Len(s)] = tok THEN Len(s)
    ELSE LastIndexOf(SubSeq(s, 1, Len(s) - 1), tok)

RECURSIVE FirstIndexFrom(_, _, _)
FirstIndexFrom(s, tok, i) ==
    IF i > Len(s) THEN 0
    ELSE IF s[i] = tok THEN i
    ELSE FirstIndexFrom(s, tok, i + 1)

FirstIndexOf(s, tok) == FirstIndexFrom(s, tok, 1)

\* s.split(tok)[-1]
AfterLast(s, tok) == SubSeq(s, LastIndexOf(s, tok) + 1, Len(s))

ReSearchNonGreedy(tail) ==
    LET lb == FirstIndexOf(tail, "[")
        rb == FirstIndexFrom(tail, "]", lb + 1)
    IN IF lb # 0 /\ rb > lb
       THEN [matched |-> TRUE,
             g1 |-> SubSeq(tail, lb + 1, rb - 1),
             g2 |-> SubSeq(tail, rb + 1, Len(tail))]
       ELSE [matched |-> FALSE, g1 |-> <<>>, g2 |-> <<>>]

\* re.search(r"\[(.*)\](.*)", tail, re.DOTALL): the leftmost "[" that a "]"
\* follows; group 1 runs to the last "]", group 2 is what follows it
ReSearch(tail) ==
    LET lb == FirstIndexOf(tail, "[")
        rb == LastIndexOf(tail, "]")
    IN IF lb # 0 /\ rb > lb
       THEN [matched |-> TRUE,
             g1 |-> SubSeq(tail, lb + 1, rb - 1),
             g2 |-> SubSeq(tail, rb + 1, Len(tail))]
       ELSE [matched |-> FALSE, g1 |-> <<>>, g2 |-> <<>>]

ParseActionDroppingUntagged(output) ==
    LET tail == AfterLast(output, "</think>")
        m == ReSearch(tail)
    IN IF m.matched
       THEN [action |-> m.g1, content |-> m.g2]
       ELSE [action |-> <<"Search">>, content |-> <<>>]

\* lines 730-736: the action and its content of one decoded output
ParseAction(output) ==
    LET tail == AfterLast(output, "</think>")
        m == ReSearch(tail)
    IN IF m.matched
       THEN [action |-> m.g1, content |-> m.g2]
       ELSE [action |-> <<"Search">>, content |-> tail]

\* line 729 and 737: "<think>" + output.split("<think>")[-1] + "<|im_start|>"
CurOutput(output) == <<"<think>">> \o AfterLast(output, "<think>") \o <<"<|im_start|>">>

\* batch_decode(..., skip_special_tokens=True): special tokens are dropped
SkipSpecial(text) == SelectSeq(text, LAMBDA t : t # "<|im_start|>")

\* the user turn of every episode, as the chat template renders it
PromptText == <<"user", "question">>

\* apply_chat_template + processor + generate + batch_decode: generate
\* returns the input ids followed by the new ones, so the decoded output is
\* the rendered conversation followed by the newly generated text
DecodedOutput(e, generated) ==
    SkipSpecial(PromptText \o (IF e.turns = 2 THEN <<"assistant">> \o e.content ELSE <<>>))
        \o generated

\* json.dumps(raw_data): a list of {"clip_id": "clip_<id>", "memory": [...]}
RECURSIVE JsonRecords(_)
JsonRecords(raw) ==
    IF raw = <<>> THEN <<>>
    ELSE <<"{", "clip_id", ToString(Head(raw).clip_id), "memory", "[">>
         \o [i \in 1..Len(Head(raw).memory) |-> ToString(Head(raw).memory[i])]
         \o <<"]", "}">> \o JsonRecords(Tail(raw))

JsonDumps(raw) == <<"[">> \o JsonRecords(raw) \o <<"]">>

\* the texts the model may generate in one round
GenSearch == <<"<think>", "t", "</think>", "[", "Search", "]", " find the cat">>
GenAnswer == <<"<think>", "t", "</think>", "[", "Answer", "]", " a cat">>
GenAnswerOther == <<"<think>", "t", "</think>", "[", "Answer", "]", " a dog">>
GenNoTag == <<"<think>", "t", "</think>", " look around">>
GenBareAnswer == <<"[", "Answer", "]", " a cat">>

Generations ==
    {GenSearch, GenAnswer, GenAnswerOther, GenNoTag, GenBareAnswer}

\* the embedding of a query text (parallel_get_embedding of its back-translation)
QueryId(content) == IF content = <<" find the cat">> THEN 1 ELSE 2

\* the nodes search_text_nodes finds above the threshold for query q in the
\* memory of a rollout episode
FoundNodes(q) == IF q = 1 THEN {1, 2, NumClips + 1} ELSE Nodes

----------------------------------------------------------------------------
(* eval_answer and the reward                                              *)

\* the judge's responses (verify_qa), as character sequences
JudgeResponses ==
    { <<"Y", "e", "s">>, <<"N", "o">>, <<"y", "e", "s", ".">> }

NotAsked == <<"-">>

LowerChar(c) ==
    CASE c = "Y" -> "y"
      [] c = "N" -> "n"
      [] OTHER -> c

\* str.lower()
Lower(str) == [i \in 1..Len(str) |-> LowerChar(str[i])]

\* sub in str
Contains(sub, str) ==
    \E i \in 0..(Len(str) - Len(sub)) : SubSeq(str, i + 1, i + Len(sub)) = sub

EvalAnswerCaseSensitive(predict, response) ==
    IF predict = <<>> THEN FALSE
    ELSE Contains(<<"y", "e", "s">>, response)

\* eval_answer(question, predict, ground_truth), given the judge's response
EvalAnswer(predict, response) ==
    IF predict = <<>> THEN FALSE
    ELSE Contains(<<"y", "e", "s">>, Lower(response))

\* the reward 1 of a correct answer, in tenths
RewardOne == 10

RewardPenalisingWrongAnswers(score, has_answer, actions, cost) ==
    IF score THEN RewardOne - cost * actions ELSE 0 - cost * actions

\* lines 903-909, in tenths
Reward(score, has_answer, actions, cost) ==
    IF score THEN RewardOne - cost * actions
    ELSE IF has_answer THEN 0
    ELSE 0 - cost * actions

----------------------------------------------------------------------------
(* RolloutSpec: _generate_and_score_completions up to the local rewards    *)

\* lines 694-703: the per-episode lists, as one record per episode; emitted
\* logs the texts generated for the episode, calls logs its search() calls
NewEpisode ==
    [turns |-> 1, content |-> <<>>, answer |-> <<"a cat">>,
     actions |-> 0, predict |-> <<>>, complete |-> <<>>, history |-> {},
     has_answer |-> FALSE,
     emitted |-> <<>>, calls |-> <<>>,
     judge |-> NotAsked, score |-> FALSE, reward |-> 0, scored |-> FALSE]

RolloutInit ==
    /\ SamplerIdle
    /\ SearchIdle
    /\ TrainIdle
    /\ MaskIdle
    /\ LossIdle
    /\ r_cfg \in [R : 1..MaxRounds, cost : 1..MaxCost, n : 1..MaxBatch]
    /\ r_cfg.R * r_cfg.n <= MaxWork
    /\ r_pc = "gen"
    /\ r_round = 0
    /\ r_idx = 0
    /\ r_output = <<>>
    /\ ep = [i \in 1..r_cfg.n |-> NewEpisode]

LastRoundOffByOne == r_round = r_cfg.R

\* lines 741, 753: i == self.args.search_rounds - 1
LastRound == r_round = r_cfg.R - 1

AfterRenderFailureLeavesLoop == "score"

\* lines 710-714: the except block prints and calls exit(); the process ends
AfterRenderFailure == "aborted"

\* lines 706-714: rendering the conversations fails; exit()
TokenizeError ==
    /\ r_pc = "gen"
    /\ r_pc' = AfterRenderFailure
    /\ UNCHANGED <<r_cfg, r_round, r_idx, r_output, ep>>
    /\ UNCHANGED <<samplerVars, searchVars, trainVars, maskVars, lossVars>>

\* lines 707-722: render, generate and decode the whole batch, the model
\* generating one of `texts` for every episode
GenerateFrom(texts) ==
    /\ r_pc = "gen"
    /\ \E g \in [1..r_cfg.n -> texts] :
          /\ r_output' = [i \in 1..r_cfg.n |-> DecodedOutput(ep[i], g[i])]
          /\ ep' = [i \in 1..r_cfg.n |->
                        [ep[i] EXCEPT !.emitted = Append(@, g[i])]]
    /\ r_pc' = "handle"
    /\ r_idx' = 1
    /\ UNCHANGED <<r_cfg, r_round>>
    /\ UNCHANGED <<samplerVars, searchVars, trainVars, maskVars, lossVars>>

Generate == GenerateFrom(Generations)

RoundsLeftInclusive(i, R) == i <= R

\* line 704: `for i in range(self.args.search_rounds)` runs its body for i
RoundsLeft(i, R) == i < R

\* the end of one pass of `for idx in range(len(output))`
Advance ==
    IF r_idx < r_cfg.n
    THEN /\ r_idx' = r_idx + 1
         /\ UNCHANGED <<r_pc, r_round>>
    ELSE /\ r_round' = r_round + 1
         /\ r_pc' = IF RoundsLeft(r_round + 1, r_cfg.R) THEN "gen" ELSE "score"
         /\ r_idx' = IF RoundsLeft(r_round + 1, r_cfg.R) THEN 0 ELSE 1

\* lines 724-728: the assistant turn is added on first use
WithAssistant(e) == [e EXCEPT !.turns = 2]

\* line 739: action == "Answer"
IsAnswer(p) == p.action = <<"Answer">>

FinalAnswerTextAlwaysFresh(e, cur) == cur

\* lines 746-749: the text the final round appends for an Answer
FinalAnswerText(e, cur) == IF e.complete = <<>> THEN cur ELSE e.complete

ProvisionalUpdateOverwriting(e, cur, content) ==
    [e EXCEPT !.has_answer = TRUE, !.complete = cur, !.predict = content]

\* lines 740-744: the episode after an Answer in a round before the last
ProvisionalUpdate(e, cur, content) ==
    IF e.complete = <<>>
    THEN [e EXCEPT !.has_answer = TRUE, !.complete = cur, !.predict = content]
    ELSE [e EXCEPT !.has_answer = TRUE]

\* lines 739-749
HandleAnswer ==
    /\ r_pc = "handle"
    /\ LET e == WithAssistant(ep[r_idx])
           p == ParseAction(r_output[r_idx])
           cur == CurOutput(r_output[r_idx])
       IN /\ IsAnswer(p)
          /\ ep' = [ep EXCEPT ![r_idx] =
                IF ~LastRound
                THEN ProvisionalUpdate(e, cur, p.content)
                ELSE [e EXCEPT !.has_answer = TRUE,
                               !.content = @ \o FinalAnswerText(e, cur)]]
    /\ Advance
    /\ UNCHANGED <<r_cfg, r_output>>
    /\ UNCHANGED <<samplerVars, searchVars, trainVars, maskVars, lossVars>>

LockedUpdateAlwaysAppending(e, cur, last) == [e EXCEPT !.content = @ \o cur]

\* lines 752-754: the episode after a non-Answer round once an answer is
\* locked in; last: this is the final round
LockedUpdate(e, cur, last) == IF last THEN [e EXCEPT !.content = @ \o cur] ELSE e

\* lines 750-754: an answer is already locked in
HandleLocked ==
    /\ r_pc = "handle"
    /\ LET e == WithAssistant(ep[r_idx])
           p == ParseAction(r_output[r_idx])
           cur == CurOutput(r_output[r_idx])
       IN /\ ~IsAnswer(p)
          /\ e.complete # <<>>
          /\ ep' = [ep EXCEPT ![r_idx] = LockedUpdate(e, cur, LastRound)]
    /\ Advance
    /\ UNCHANGED <<r_cfg, r_output>>
    /\ UNCHANGED <<samplerVars, searchVars, trainVars, maskVars, lossVars>>

SearchUpdateNotCounting(e, cur, r) ==
    [e EXCEPT !.history = r.history,
              !.content = @ \o cur \o <<"Searched knowledge:">>
                            \o JsonDumps(r.raw_data) \o <<"\n">>]

SearchUpdateForgettingVisited(e, cur, r) ==
    [e EXCEPT !.content = @ \o cur \o <<"Searched knowledge:">>
                            \o JsonDumps(r.raw_data) \o <<"\n">>,
              !.actions = @ + 1]

\* lines 755-757: the episode after search() returned r
SearchUpdate(e, cur, r) ==
    [e EXCEPT !.history = r.history,
              !.content = @ \o cur \o <<"Searched knowledge:">>
                            \o JsonDumps(r.raw_data) \o <<"\n">>,
              !.actions = @ + 1]

\* lines 750, 755-757: the Search action
HandleSearch ==
    /\ r_pc = "handle"
    /\ LET e == WithAssistant(ep[r_idx])
           p == ParseAction(r_output[r_idx])
           cur == CurOutput(r_output[r_idx])
       IN /\ ~IsAnswer(p)
          /\ e.complete = <<>>
          /\ LET q == QueryId(p.content)
                 r == Search(q, FoundNodes(q), e.history)
                 call == [round |-> r_round, content |-> p.content, query |-> q,
                          present |-> FoundNodes(q), histIn |-> e.history, ret |-> r]
             IN ep' = [ep EXCEPT ![r_idx] =
                          [SearchUpdate(e, cur, r) EXCEPT !.calls = Append(@, call)]]
    /\ Advance
    /\ UNCHANGED <<r_cfg, r_output>>
    /\ UNCHANGED <<samplerVars, searchVars, trainVars, maskVars, lossVars>>

\* lines 898-909: the reward of episode r_idx
ScoreEpisode ==
    /\ r_pc = "score"
    /\ LET e == ep[r_idx]
       IN \E resp \in (IF e.predict = <<>> THEN {NotAsked} ELSE JudgeResponses) :
             LET score == EvalAnswer(e.predict, resp)
             IN ep' = [ep EXCEPT ![r_idx] =
                   [e EXCEPT !.judge = resp,
                             !.score = score,
                             !.reward = Reward(score, e.has_answer, e.actions, r_cfg.cost),
                             !.scored = TRUE]]
    /\ IF r_idx < r_cfg.n
       THEN r_idx' = r_idx + 1 /\ UNCHANGED r_pc
       ELSE r_idx' = 0 /\ r_pc' = "done"
    /\ UNCHANGED <<r_cfg, r_round, r_output>>
    /\ UNCHANGED <<samplerVars, searchVars, trainVars, maskVars, lossVars>>

RolloutNext ==
    \/ TokenizeError
    \/ Generate
    \/ HandleAnswer
    \/ HandleLocked
    \/ HandleSearch
    \/ ScoreEpisode

RolloutSpec == RolloutInit /\ [][RolloutNext]_vars

----------------------------------------------------------------------------
(* ParseSpec: one round of a one-episode rollout in which the model may    *)
(* generate any text of up to MaxTextLen tokens over the marker tokens,    *)
(* two spellings of the Answer tag and a filler                            *)

TextTokens == {"</think>", "[", "]", "Answer", "answer", "x"}

ParseTexts == UNION {[1..k -> TextTokens] : k \in 0..MaxTextLen}

ParseInit ==
    /\ SamplerIdle
    /\ SearchIdle
    /\ TrainIdle
    /\ MaskIdle
    /\ LossIdle
    /\ r_cfg = [R |-> 1, cost |-> 1, n |-> 1]
    /\ r_pc = "gen"
    /\ r_round = 0
    /\ r_idx = 0
    /\ r_output = <<>>
    /\ ep = [i \in 1..r_cfg.n |-> NewEpisode]

GenerateText == GenerateFrom(ParseTexts)

ParseNext ==
    \/ GenerateText
    \/ HandleAnswer
    \/ HandleSearch

ParseSpec == ParseInit /\ [][ParseNext]_vars

----------------------------------------------------------------------------
(* Claims about the rollout                                                *)

EndsWith(text, suffix) ==
    /\ Len(text) >= Len(suffix)
    /\ SubSeq(text, Len(text) - Len(suffix) + 1, Len(text)) = suffix

\* the judge's own verdict on an episode: it was asked and said yes
JudgedCorrect(e) ==
    /\ e.judge # NotAsked
    /\ Contains(<<"y", "e", "s">>, Lower(e.judge))

\* C4: a 2-round episode whose round 0 emits `[Search] find the cat` and
\* whose round 1 emits `[Answer] a cat`, with reference answer "a cat", a
\* judge that affirms a matching answer and cost_per_action = 0.1, ends with
\* action_count = 1, correct = True and reward = 0.9.
C4_EndToEndAnswerRewarded ==
    \A i \in 1..Len(ep) :
        (/\ r_pc = "done"
         /\ r_cfg.R = 2
         /\ r_cfg.cost = 1
         /\ ep[i].answer = <<"a cat">>
         /\ AfterLast(ep[i].emitted[1], "</think>") = <<"[", "Search", "]", " find the cat">>
         /\ AfterLast(ep[i].emitted[2], "</think>") = <<"[", "Answer", "]", " a cat">>
         /\ (ep[i].judge = NotAsked \/ JudgedCorrect(ep[i])))
        => /\ ep[i].actions = 1
           /\ ep[i].score
           /\ ep[i].reward = 9

\* C5: the reward is 1 - action_cost*action_count when the judge deems the
\* prediction correct, exactly 0 when an Answer action occurred but the
\* prediction is not judged correct, and 0 - action_cost*action_count when
\* no Answer action ever occurred; (correct, 2 actions, cost 0.1) gives 0.8,
\* (incorrect, answered, 1 action) gives 0, (no answer, 3 actions, cost 0.1)
\* gives -0.3.
C5_RewardCases ==
    /\ \A i \in 1..Len(ep) :
          ep[i].scored =>
             /\ JudgedCorrect(ep[i])
                   => ep[i].reward = RewardOne - r_cfg.cost * ep[i].actions
             /\ (ep[i].has_answer /\ ~JudgedCorrect(ep[i])) => ep[i].reward = 0
             /\ ~ep[i].has_answer => ep[i].reward = 0 - r_cfg.cost * ep[i].actions
    /\ Reward(TRUE, TRUE, 2, 1) = 8
    /\ Reward(FALSE, TRUE, 1, 1) = 0
    /\ Reward(FALSE, FALSE, 3, 1) = 0 - 3

\* a scored batch with a correct answer after a search, a wrong answer after
\* a search, or no answer after searches, all three cases among its episodes
C5_Witness ==
    /\ r_pc = "done"
    /\ \E i \in 1..Len(ep) : JudgedCorrect(ep[i]) /\ ep[i].actions >= 1
    /\ \E i \in 1..Len(ep) :
          \/ ep[i].has_answer /\ ~JudgedCorrect(ep[i]) /\ ep[i].actions >= 1
          \/ ~ep[i].has_answer /\ ep[i].actions >= 2

\* the rounds in which search() was invoked for episode e
SearchRounds(e) == {e.calls[k].round : k \in 1..Len(e.calls)}

\* C8: at every point of a rollout an episode's action counter equals the
\* number of rounds in which the Ranker was invoked for it (so a round
\* handled as Answer, which invokes none, leaves it alone), and the counter
\* never exceeds the round budget R.
C8_ActionsCountSearches ==
    \A i \in 1..Len(ep) :
        /\ ep[i].actions = Cardinality(SearchRounds(ep[i]))
        /\ Len(ep[i].calls) = Cardinality(SearchRounds(ep[i]))
        /\ ep[i].actions <= r_cfg.R

\* an episode that searched twice and then answered in a later round
C8_Witness ==
    \E i \in 1..Len(ep) :
        /\ ep[i].actions = 2
        /\ ep[i].has_answer
        /\ Len(ep[i].emitted) = 3

\* C9: the rollout loop performs exactly R = search_rounds generation rounds
\* and then ends: once the loop is left every episode has received exactly R
\* generations, none ever receives more, every Ranker call lies in a round
\* below R, and after the loop no episode receives a generation, a Ranker
\* call or a conversation update.
C9_LoopLeft == r_pc \in {"score", "done"}

C9_Inv ==
    /\ r_round <= r_cfg.R
    /\ \A i \in 1..Len(ep) :
          /\ Len(ep[i].emitted) <= r_cfg.R
          /\ \A k \in 1..Len(ep[i].calls) : ep[i].calls[k].round < r_cfg.R
          /\ C9_LoopLeft => Len(ep[i].emitted) = r_cfg.R
    /\ C9_LoopLeft => r_round = r_cfg.R
    /\ r_pc \in {"gen", "handle"} => r_round < r_cfg.R

C9_NothingAfterLoop ==
    C9_LoopLeft =>
        \A i \in 1..Len(ep) :
            /\ ep'[i].emitted = ep[i].emitted
            /\ ep'[i].calls = ep[i].calls
            /\ ep'[i].content = ep[i].content
            /\ ep'[i].turns = ep[i].turns

C9_ExactlyRRounds == [](C9_Inv) /\ [][C9_NothingAfterLoop]_vars

\* a batch of two episodes that left the loop after three rounds, one of
\* them having searched in every round
C9_Witness ==
    /\ r_pc = "done"
    /\ r_cfg.R = 3
    /\ r_cfg.n = 2
    /\ ep[1].actions = 3
    /\ ep[2].has_answer

----------------------------------------------------------------------------
(* C13: when the text generated in a round holds no bracketed action tag   *)
(* after its last </think>, the round is handled as a Search whose content *)
(* is that entire trailing text (the search itself is skipped once an      *)
(* answer is locked in); handling a decoded output never aborts the round, *)
(* whatever was generated.                                                 *)

\* the text generated for episode i in the round being handled
Generated(i) == ep[i].emitted[Len(ep[i].emitted)]

HasThinkEnd(text) == \E k \in 1..Len(text) : text[k] = "</think>"

HasBracketTag(text) ==
    \E k, l \in 1..Len(text) : k < l /\ text[k] = "[" /\ text[l] = "]"

C13_HandleStep ==
    r_pc = "handle" =>
        /\ r_pc' \in {"handle", "gen", "score"}
        /\ LET e == ep[r_idx]
               tail == AfterLast(Generated(r_idx), "</think>")
           IN (HasThinkEnd(Generated(r_idx)) /\ ~HasBracketTag(tail)) =>
                 /\ ep'[r_idx].has_answer = e.has_answer
                 /\ ep'[r_idx].complete = e.complete
                 /\ ep'[r_idx].predict = e.predict
                 /\ e.complete = <<>> =>
                       /\ Len(ep'[r_idx].calls) = Len(e.calls) + 1
                       /\ ep'[r_idx].calls[Len(e.calls) + 1].content = tail
                       /\ ep'[r_idx].calls[Len(e.calls) + 1].round = r_round
                       /\ ep'[r_idx].actions = e.actions + 1

C13_UntaggedTextIsSearch == [][C13_HandleStep]_vars

\* an untagged text was searched for in a round after the first, when the
\* conversation already held bracketed evidence
C13_Witness ==
    \E i \in 1..Len(ep) : \E k \in 1..Len(ep[i].calls) :
        /\ ep[i].calls[k].round >= 1
        /\ ep[i].calls[k].content = <<" look around">>
        /\ ep[i].emitted[ep[i].calls[k].round + 1] = GenNoTag

----------------------------------------------------------------------------
(* C15: in the final round (round R-1), when the action is Answer, exactly *)
(* one text is appended to the episode's conversation: the provisional     *)
(* output captured in an earlier round if there is one, otherwise the      *)
(* final round's own output.                                               *)

\* what a step appended to the conversation of episode i
Appended(i) == SubSeq(ep'[i].content, Len(ep[i].content) + 1, Len(ep'[i].content))

\* the round's own output: "<think>", the generated text from its last
\* "<think>" on, and the turn marker
OwnOutput(i) ==
    <<"<think>">> \o AfterLast(Generated(i), "<think>") \o <<"<|im_start|>">>

HasThinkStart(text) == \E k \in 1..Len(text) : text[k] = "<think>"

C15_FinalAnswerStep ==
    (/\ r_pc = "handle"
     /\ r_round = r_cfg.R - 1
     /\ IsAnswer(ParseAction(r_output[r_idx])))
    => LET e == ep[r_idx]
       IN /\ Len(ep'[r_idx].content) > Len(e.content)
          /\ SubSeq(ep'[r_idx].content, 1, Len(e.content)) = e.content
          /\ e.complete # <<>> => Appended(r_idx) = e.complete
          /\ e.complete = <<>> =>
                /\ Head(Appended(r_idx)) = "<think>"
                /\ EndsWith(Appended(r_idx), Generated(r_idx) \o <<"<|im_start|>">>)
                      \/ Appended(r_idx) = OwnOutput(r_idx)
                /\ HasThinkStart(Generated(r_idx)) => Appended(r_idx) = OwnOutput(r_idx)
          /\ ep'[r_idx].calls = e.calls
          /\ ep'[r_idx].actions = e.actions

C15_FinalAnswerAppendsOneText == [][C15_FinalAnswerStep]_vars

\* a two-round episode answered in round 0 and again, differently, in the
\* final round: its conversation is the provisional output alone
C15_Witness ==
    \E i \in 1..Len(ep) :
        /\ r_cfg.R = 2
        /\ r_pc \in {"score", "done"}
        /\ ep[i].emitted = <<GenAnswer, GenAnswerOther>>
        /\ ep[i].complete # <<>>
        /\ ep[i].content = ep[i].complete

----------------------------------------------------------------------------
(* C16: once an episode has captured a provisional answer, every later     *)
(* round whose action is not Answer invokes no Ranker call and leaves the  *)
(* episode's action counter and visited-clip set unchanged; its            *)
(* conversation is unchanged too unless the round is the final one, where  *)
(* only that round's raw output text is appended.                          *)

C16_LockedStep ==
    (/\ r_pc = "handle"
     /\ ep[r_idx].complete # <<>>
     /\ ~IsAnswer(ParseAction(r_output[r_idx])))
    => LET e == ep[r_idx]
       IN /\ ep'[r_idx].calls = e.calls
          /\ ep'[r_idx].actions = e.actions
          /\ ep'[r_idx].history = e.history
          /\ ep'[r_idx].complete = e.complete
          /\ ep'[r_idx].predict = e.predict
          /\ r_round < r_cfg.R - 1 => ep'[r_idx].content = e.content
          /\ r_round = r_cfg.R - 1 =>
                /\ SubSeq(ep'[r_idx].content, 1, Len(e.content)) = e.content
                /\ HasThinkStart(Generated(r_idx)) => Appended(r_idx) = OwnOutput(r_idx)
                /\ EndsWith(Appended(r_idx), Generated(r_idx) \o <<"<|im_start|>">>)

C16_LockedRoundsSkipSearch == [][C16_LockedStep]_vars

\* a three-round episode that answered in round 0 and emitted searches in
\* both later rounds: no search ran, the last raw output alone was appended
C16_Witness ==
    \E i \in 1..Len(ep) :
        /\ r_cfg.R = 3
        /\ r_pc \in {"score", "done"}
        /\ ep[i].emitted = <<GenAnswer, GenSearch, GenNoTag>>
        /\ ep[i].calls = <<>>
        /\ ep[i].actions = 0
        /\ ep[i].content = <<"<think>", "t", "</think>", " look around", "<|im_start|>">>

----------------------------------------------------------------------------
(* C17: an episode is judged correct iff its prediction is non-empty and   *)
(* the lower-cased judge response contains "yes"; a response without that  *)
(* marker yields 'incorrect', never an error, and an empty prediction is   *)
(* incorrect without the judge being consulted.                            *)

\* "yes" occurs in the response, letter case aside
SaysYes(resp) ==
    \E k \in 1..(Len(resp) - 2) :
        /\ resp[k] \in {"y", "Y"}
        /\ resp[k + 1] \in {"e", "E"}
        /\ resp[k + 2] \in {"s", "S"}

C17_CorrectIffYes ==
    /\ \A i \in 1..Len(ep) :
          ep[i].scored =>
             /\ ep[i].score <=> (ep[i].predict # <<>> /\ ep[i].judge # NotAsked
                                   /\ SaysYes(ep[i].judge))
             /\ ep[i].predict = <<>> => (ep[i].judge = NotAsked /\ ~ep[i].score)
             /\ ep[i].predict # <<>> => ep[i].judge \in JudgeResponses
    /\ (r_pc = "done") => \A i \in 1..Len(ep) : ep[i].scored
    /\ (\E i \in 1..Len(ep) : ep[i].scored) => r_pc \in {"score", "done"}

\* a scored batch with an answer the judge affirmed with a capitalised
\* "Yes" and another episode found incorrect
C17_Witness ==
    /\ r_pc = "done"
    /\ \E i \in 1..Len(ep) : ep[i].judge = <<"Y", "e", "s">> /\ ep[i].score
    /\ \E i \in 1..Len(ep) :
          /\ ~ep[i].score
          /\ \/ ep[i].judge = <<"N", "o">>
             \/ ep[i].predict = <<>> /\ ep[i].has_answer

----------------------------------------------------------------------------
(* C21: search() returns a visited set equal to the caller's set united    *)
(* with the clips accepted in the call, never less; the rollout hands the  *)
(* returned set to the episode's next call, so over the Search rounds of   *)
(* one episode no clip id is in the evidence of two different rounds.      *)

\* the clip ids of the evidence records call c returned
EvidenceClips(c) == {c.ret.raw_data[k].clip_id : k \in 1..Len(c.ret.raw_data)}

C21_NoClipShownTwice ==
    \A i \in 1..Len(ep) :
        LET cs == ep[i].calls
        IN /\ \A k \in 1..Len(cs) :
                 /\ cs[k].ret.history = cs[k].histIn \cup EvidenceClips(cs[k])
                 /\ cs[k].histIn = (IF k = 1 THEN {} ELSE cs[k - 1].ret.history)
           /\ \A j, k \in 1..Len(cs) :
                 j < k => EvidenceClips(cs[j]) \cap EvidenceClips(cs[k]) = {}
           /\ ep[i].history = (IF cs = <<>> THEN {} ELSE cs[Len(cs)].ret.history)

\* an episode whose second search found clips the first one had shown and
\* still returned new evidence
C21_Witness ==
    \E i \in 1..Len(ep) :
        /\ Len(ep[i].calls) >= 2
        /\ EvidenceClips(ep[i].calls[1]) # {}
        /\ EvidenceClips(ep[i].calls[2]) # {}
        /\ EvidenceClips(ep[i].calls[1]) \cap FoundClips(ep[i].calls[2]) # {}

----------------------------------------------------------------------------
(* C22: an Answer in a round before the last records the provisional       *)
(* output and the prediction only when none is recorded; once recorded,    *)
(* neither changes in any later round, whatever a later Answer says, and   *)
(* the rollout still runs every remaining round.                           *)

\* episode i is being handled and its round is an Answer before the last
C22_EarlyAnswer(i) ==
    /\ r_pc = "handle"
    /\ r_idx = i
    /\ ~LastRound
    /\ IsAnswer(ParseAction(r_output[i]))

C22_Step ==
    \A i \in 1..Len(ep) :
        /\ ep[i].complete # <<>> =>
              /\ ep'[i].complete = ep[i].complete
              /\ ep'[i].predict = ep[i].predict
        /\ ep[i].complete = <<>> =>
              IF C22_EarlyAnswer(i)
              THEN /\ ep'[i].complete = CurOutput(r_output[i])
                   /\ ep'[i].predict = ParseAction(r_output[i]).content
              ELSE /\ ep'[i].complete = <<>>
                   /\ ep'[i].predict = ep[i].predict

C22_Inv ==
    \A i \in 1..Len(ep) :
        /\ r_pc \in {"score", "done"} => Len(ep[i].emitted) = r_cfg.R
        /\ ep[i].complete # <<>> /\ r_pc \in {"gen", "handle"} => r_round < r_cfg.R

C22_FirstAnswerLockedIn == [](C22_Inv) /\ [][C22_Step]_vars

\* an episode that answered "a cat" in the first of three rounds, answered
\* "a dog" in a later one and finished with the first answer as prediction
C22_Witness ==
    \E i \in 1..Len(ep) :
        /\ r_pc = "done"
        /\ Len(ep[i].emitted) = 3
        /\ ep[i].emitted[1] = GenAnswer
        /\ ep[i].emitted[2] = GenAnswerOther
        /\ ep[i].predict = <<" a cat">>
        /\ ep[i].complete = GenAnswer \o <<"<|im_start|>">>

----------------------------------------------------------------------------
(* C25: when rendering the conversation batch fails in a round the run     *)
(* ends at once: the round generates nothing, and afterwards there is no   *)
(* retry, no further round, no Ranker call, no reward, and the rollout     *)
(* never returns (so no loss is computed and no buffer slot written).      *)

\* a step that leaves the render-and-generate point without generating
C25_RenderFailed == r_pc = "gen" /\ r_pc' # "gen" /\ ep' = ep

C25_Step ==
    /\ C25_RenderFailed =>
          /\ r_pc' = "aborted"
          /\ UNCHANGED <<r_cfg, r_round, r_idx, r_output>>
    /\ r_pc = "aborted" => UNCHANGED rolloutVars

C25_Inv ==
    r_pc = "aborted" =>
        /\ r_round < r_cfg.R
        /\ \A i \in 1..Len(ep) :
              /\ Len(ep[i].emitted) = r_round
              /\ \A k \in 1..Len(ep[i].calls) : ep[i].calls[k].round < r_round
              /\ ~ep[i].scored
              /\ ep[i].reward = 0

C25_RenderFailureEndsRun == [](C25_Inv) /\ [][C25_Step]_vars

\* rendering failed in the second round, after a round in which an episode
\* had searched
C25_Witness ==
    /\ r_pc = "aborted"
    /\ r_round = 1
    /\ \E i \in 1..Len(ep) : Len(ep[i].calls) = 1

----------------------------------------------------------------------------
(* C26: the prediction is written only by an Answer in a round before the  *)
(* last.  An episode whose first Answer comes in the final round (every    *)
(* answering episode when R = 1) ends with has_answer true and an empty    *)
(* prediction, is not sent to the judge and gets reward 0 whatever its     *)
(* text and action count.  Always: a non-empty prediction implies a        *)
(* recorded provisional output, which implies has_answer.                  *)

\* episode i is being handled and its round is an Answer
C26_AnswerRound(i) ==
    /\ r_pc = "handle"
    /\ r_idx = i
    /\ IsAnswer(ParseAction(r_output[i]))

C26_Step ==
    \A i \in 1..Len(ep) :
        /\ ep'[i].predict # ep[i].predict =>
              /\ C26_AnswerRound(i)
              /\ r_round < r_cfg.R - 1
        /\ C26_AnswerRound(i) /\ r_round = r_cfg.R - 1 /\ ~ep[i].has_answer =>
              /\ ep'[i].has_answer
              /\ ep'[i].predict = <<>>
              /\ ep'[i].complete = <<>>
        /\ ep'[i].has_answer /\ ~ep[i].has_answer => C26_AnswerRound(i)

C26_Inv ==
    \A i \in 1..Len(ep) :
        /\ ep[i].predict # <<>> => ep[i].complete # <<>>
        /\ ep[i].complete # <<>> => ep[i].has_answer
        /\ r_cfg.R = 1 => ep[i].predict = <<>>
        /\ ep[i].scored /\ ep[i].has_answer /\ ep[i].complete = <<>> =>
              /\ ep[i].predict = <<>>
              /\ ep[i].judge = NotAsked
              /\ ~ep[i].score
              /\ ep[i].reward = 0

C26_LateAnswerScoresZero == [](C26_Inv) /\ [][C26_Step]_vars

\* an episode that searched twice, gave its first Answer in the last of
\* three rounds and was scored 0 without the judge being asked
C26_Witness ==
    \E i \in 1..Len(ep) :
        /\ ep[i].scored
        /\ Len(ep[i].emitted) = 3
        /\ ep[i].emitted[3] = GenAnswer
        /\ ep[i].actions = 2
        /\ ep[i].has_answer
        /\ ep[i].predict = <<>>
        /\ ep[i].judge = NotAsked
        /\ ep[i].reward = 0

----------------------------------------------------------------------------
(* C29: parsing is greedy over the text after the last </think>: when that *)
(* text holds a '[' with a ']' behind it, the action name is everything    *)
(* between its first '[' and its last ']' and the content is what follows  *)
(* the last ']'.  The round is handled as Answer iff the name is exactly   *)
(* "Answer"; any other name (other case, other tag, an '[Answer]' whose    *)
(* content holds a further ']') is handled as Search with the content      *)
(* after the last ']'.                                                     *)

\* the positions of token tok in text
Positions(text, tok) == {k \in 1..Len(text) : text[k] = tok}

SetMax(S) == CHOOSE x \in S : \A y \in S : y <= x

SetMin(S) == CHOOSE x \in S : \A y \in S : x <= y

\* the decoded text behind its last </think> (all of it when it holds none)
C29_Tail(text) ==
    LET ends == Positions(text, "</think>")
    IN IF ends = {} THEN text
       ELSE [k \in 1..(Len(text) - SetMax(ends)) |-> text[SetMax(ends) + k]]

\* the text holds a '[' with a ']' somewhere behind it
C29_Tagged(tail) ==
    \E a \in Positions(tail, "[") : \E b \in Positions(tail, "]") : a < b

C29_Name(tail) ==
    LET a == SetMin(Positions(tail, "["))
        b == SetMax(Positions(tail, "]"))
    IN [k \in 1..(b - a - 1) |-> tail[a + k]]

C29_Content(tail) ==
    LET b == SetMax(Positions(tail, "]"))
    IN [k \in 1..(Len(tail) - b) |-> tail[b + k]]

C29_GreedyParse ==
    \A i \in 1..Len(ep) :
        (Len(ep[i].emitted) = 1 /\ ep[i].turns = 2) =>
            LET tail == C29_Tail(PromptText \o ep[i].emitted[1])
            IN /\ C29_Tagged(tail) =>
                    /\ ep[i].has_answer <=> C29_Name(tail) = <<"Answer">>
                    /\ ~ep[i].has_answer =>
                          /\ Len(ep[i].calls) = 1
                          /\ ep[i].calls[1].content = C29_Content(tail)
               /\ ep[i].has_answer => (ep[i].calls = <<>> /\ ep[i].actions = 0)
               /\ ~ep[i].has_answer => ep[i].actions = 1

\* a handled text "[Answer] x ]": the name runs to the last ']', so the
\* round was a Search and not an Answer
C29_Witness ==
    \E i \in 1..Len(ep) :
        /\ ep[i].emitted = << <<"[", "Answer", "]", "x", "]">> >>
        /\ ~ep[i].has_answer
        /\ Len(ep[i].calls) = 1
        /\ ep[i].calls[1].content = <<>>

----------------------------------------------------------------------------
(* The trainer: setup validation, the train sampler, and the calls of      *)
(* _prepare_inputs on every worker: rollout, gather, group normalisation   *)

PossibleValuesUpToGlobal(global) == 2..global

PossibleValuesFromOne(global) == {g \in 1..global : global % g = 0}

\* lines 452-453: the values of num_generations the global batch size allows
PossibleValues(global) == {g \in 2..global : global % g = 0}

SamplerBatchSizePerCall(c) == (c.pd * c.P) \div c.G

\* lines 568-579: the train sampler's batch_size
SamplerBatchSize(c) == (c.pd * c.P * c.ga) \div c.G

\* lines 573-579: list(sampler) of worker r's train sampler
TrainStream(c, r) ==
    SamplerIterate(RandPerm(c.N, ManualSeed(c.seed, r)).perm,
                   c.G, SamplerBatchSize(c), c.K)

\* the figure of lines 552-566: call `step` hands worker r (1..P) the
\* per_device_train_batch_size consecutive indices of the stream that follow
\* those of the lower ranks
DealtSlice(stream, c, step, r) ==
    SubSeq(stream, (step * c.P + (r - 1)) * c.pd + 1, (step * c.P + r) * c.pd)

\* the rewards an episode may get here (a correct answer and no answer,
\* each after one search at cost 0.1)
RewardValues == {Reward(TRUE, TRUE, 1, 1), Reward(FALSE, FALSE, 1, 1)}

GatherReversed(local, P) == Flatten([r \in 1..P |-> local[P + 1 - r]])

\* line 956: gather() concatenates the workers' tensors in rank order
Gather(local, P) == Flatten([r \in 1..P |-> local[r]])

RECURSIVE SumSeq(_)
SumSeq(xs) == IF xs = <<>> THEN 0 ELSE Head(xs) + SumSeq(Tail(xs))

\* line 378: reward_weights of the one reward function, args.reward_weights unset
RewardWeights == <<1>>

\* line 959: (rewards_per_func * reward_weights.unsqueeze(0)).nansum(dim=1),
\* rewards_per_func holding one column (line 897)
Weighted(rewards, weights) ==
    [i \in 1..Len(rewards) |-> SumSeq([f \in 1..Len(weights) |-> rewards[i] * weights[f]])]

\* rewards.view(-1, G)[g]: the rewards of group g (0-based)
GroupOf(rewards, g, G) == SubSeq(rewards, g * G + 1, g * G + G)

AdvantagesOverBatchMean(rewards, G) ==
    [i \in 1..Len(rewards) |-> Len(rewards) * rewards[i] - SumSeq(rewards)]

\* lines 962-968: rewards - mean_grouped_rewards, each multiplied by G (the
\* group mean is sum/G, so G * (reward - mean) = G * reward - sum)
Advantages(rewards, G) ==
    [i \in 1..Len(rewards) |->
        G * rewards[i] - SumSeq(GroupOf(rewards, (i - 1) \div G, G))]

\* sum of the squares of the elements
RECURSIVE SumSquares(_)
SumSquares(xs) == IF xs = <<>> THEN 0 ELSE Head(xs) * Head(xs) + SumSquares(Tail(xs))

\* torch.Tensor.std(dim=1) without arguments: Bessel's correction of 1
StdCorrection == 1

GroupedStdPopulation(rewards, G) ==
    [i \in 1..Len(rewards) |->
        LET g == GroupOf(rewards, (i - 1) \div G, G)
        IN [num |-> SumSquares([k \in 1..G |-> G * g[k] - SumSeq(g)]),
            den |-> G * G * G]]

\* lines 963 and 967: std_grouped_rewards after repeat_interleave, every
\* element kept as the fraction num/den whose square root it is: the sum of
\* the squared deviations from the group mean over G - correction (the
\* deviations are taken times G, hence the G * G in the denominator)
GroupedStd(rewards, G) ==
    [i \in 1..Len(rewards) |->
        LET g == GroupOf(rewards, (i - 1) \div G, G)
        IN [num |-> SumSquares([k \in 1..G |-> G * g[k] - SumSeq(g)]),
            den |-> G * G * (G - StdCorrection)]]

ProcessSliceOfRankZero(adv, r, n) == SubSeq(adv, 1, n)

\* lines 973-977: advantages[process_slice] of worker r (1..P) holding n episodes
ProcessSlice(adv, r, n) == SubSeq(adv, (r - 1) * n + 1, r * n)

\* line 676: self.state.global_step, which the training loop advances after
\* every gradient_accumulation_steps calls
GlobalStep == t_step \div t_cfg.ga

Workers == 1..t_cfg.P

\* lines 583-587: list(sampler) of worker r's eval sampler (batch_size and
\* repeat_count at their defaults of 1)
EvalStream(c, r) ==
    SamplerIterate(RandPerm(c.Ne, ManualSeed(c.seed, r)).perm, c.G, 1, 1)

\* the eval dataloader's batch of worker r (1..P) at evaluation call `step`
EvalSlice(stream, c, step, r) ==
    SubSeq(stream, (step * c.P + (r - 1)) * c.pde + 1, (step * c.P + r) * c.pde)

AllConfigs ==
    {c \in [P : 1..MaxGlobal, pd : 1..MaxGlobal, pde : 1..MaxGlobal, eval : BOOLEAN,
            ga : 1..MaxGA, G : 1..MaxGlobal, K : 1..MaxK, N : 1..MaxN,
            Ne : 1..MaxEvalN, seed : 0..MaxSeed] :
        /\ c.P * c.pd <= MaxGlobal
        /\ c.P * c.pde <= MaxGlobal
        /\ c.P * c.pd * c.ga <= MaxBuffered}

\* the runs with eval_strategy = "no" (the eval arguments are then unused)
TrainConfigs == {c \in AllConfigs : ~c.eval /\ c.pde = 1 /\ c.Ne = 1}

TrainStart ==
    /\ SamplerIdle
    /\ SearchIdle
    /\ RolloutIdle
    /\ MaskIdle
    /\ LossIdle
    /\ t_pc = "new"
    /\ t_stream = <<>>
    /\ t_estream = <<>>
    /\ t_step = 0
    /\ t_local = <<>>
    /\ t_gathered = <<>>
    /\ t_adv = <<>>
    /\ t_std = <<>>
    /\ t_out = <<>>
    /\ t_buf = <<>>
    /\ t_mode = "train"
    /\ t_estep = 0
    /\ t_error = <<>>
    /\ t_log = <<>>

TrainInit ==
    /\ t_cfg \in TrainConfigs
    /\ TrainStart

TrainFrame == UNCHANGED <<samplerVars, searchVars, rolloutVars, maskVars, lossVars>>

\* lines 454, 463: the batch size whose check fails first, "none" if both pass
FailingCheck(c) ==
    IF c.G \notin PossibleValues(c.pd * c.P) THEN "train"
    ELSE IF c.eval /\ c.G \notin PossibleValues(c.pde * c.P) THEN "eval"
    ELSE "none"

\* lines 455-459, 464-468: the ValueError and the values its message lists
ValueError(c, which) ==
    [type |-> "ValueError",
     batch |-> which,
     num_generations |-> c.G,
     possible_values |-> PossibleValues((IF which = "train" THEN c.pd ELSE c.pde) * c.P)]

\* lines 450-468: GRPOTrainer.__init__ raises ValueError
InitRaises ==
    /\ t_pc = "new"
    /\ FailingCheck(t_cfg) # "none"
    /\ t_pc' = "error"
    /\ t_error' = <<ValueError(t_cfg, FailingCheck(t_cfg))>>
    /\ UNCHANGED <<t_cfg, t_stream, t_estream, t_step, t_local, t_gathered, t_adv, t_std, t_out, t_buf,
                   t_mode, t_estep, t_log>>
    /\ TrainFrame

\* lines 421-424, 450-468, 540-579: construction succeeds; every worker
\* builds its samplers and its empty buffer
InitTrainer ==
    /\ t_pc = "new"
    /\ FailingCheck(t_cfg) = "none"
    /\ t_pc' = "train"
    /\ t_stream' = [r \in Workers |-> TrainStream(t_cfg, r)]
    /\ t_estream' = [r \in Workers |-> IF t_cfg.eval THEN EvalStream(t_cfg, r) ELSE <<>>]
    /\ t_local' = [r \in Workers |-> <<>>]
    /\ t_out' = [r \in Workers |-> <<>>]
    /\ t_buf' = [r \in Workers |-> [k \in 1..t_cfg.ga |-> <<>>]]
    /\ UNCHANGED <<t_cfg, t_step, t_gathered, t_adv, t_std, t_mode, t_estep, t_error, t_log>>
    /\ TrainFrame

\* the dataloader still holds a batch for call t_step, and the run has not
\* made all its calls
HasBatch ==
    /\ (t_step + 1) * t_cfg.P * t_cfg.pd <= Len(t_stream[1])
    /\ t_step < MaxSteps

\* the eval dataloader still holds a full batch for evaluation call t_estep
HasEvalBatch ==
    (t_estep + 1) * t_cfg.P * t_cfg.pde <= Len(t_estream[1])

GeneratingOnEveryCall == TRUE

\* line 676: this call generates
Generating == GlobalStep % t_cfg.K = 0

\* line 678: the buffer slot of this call (1-based)
Slot == (t_step % t_cfg.ga) + 1

\* lines 694-909 on worker r: its episodes, one per index of its batch, and
\* their rewards (line 677 in train mode, line 684 in eval mode)
LocalRollout(r) ==
    /\ t_pc = "train"
    /\ \/ t_mode = "train" /\ HasBatch /\ Generating
       \/ t_mode = "eval" /\ HasEvalBatch
    /\ t_local[r] = <<>>
    /\ LET idx == IF t_mode = "train"
                  THEN DealtSlice(t_stream[r], t_cfg, t_step, r)
                  ELSE EvalSlice(t_estream[r], t_cfg, t_estep, r)
       IN \E rw \in [1..Len(idx) -> RewardValues] :
             t_local' = [t_local EXCEPT ![r] =
                 [i \in 1..Len(idx) |->
                     [prompt |-> idx[i], reward |-> rw[i], rank |-> r, pos |-> i,
                      step |-> IF t_mode = "train" THEN t_step ELSE t_estep,
                      mode |-> t_mode]]]
    /\ UNCHANGED <<t_cfg, t_pc, t_stream, t_estream, t_step, t_gathered, t_adv, t_std, t_out, t_buf,
                   t_mode, t_estep, t_error, t_log>>
    /\ TrainFrame

\* lines 956-977 and 677-685: the collective gather, the group
\* normalisation and every worker's slice; in train mode the batch goes to
\* the buffer slot and _step += 1, in eval mode it is only returned
GatherAndNormalise ==
    /\ t_pc = "train"
    /\ \A r \in Workers : t_local[r] # <<>>
    /\ LET all == Gather(t_local, t_cfg.P)
           rewards == Weighted([i \in 1..Len(all) |-> all[i].reward], RewardWeights)
           adv == Advantages(rewards, t_cfg.G)
           batch == [r \in Workers |->
                        [episodes |-> t_local[r],
                         advantages |-> ProcessSlice(adv, r, Len(t_local[r]))]]
       IN /\ t_gathered' = all
          /\ t_adv' = adv
          /\ t_std' = GroupedStd(rewards, t_cfg.G)
          /\ t_out' = [r \in Workers |-> <<batch[r]>>]
          /\ IF t_mode = "train"
             THEN /\ t_buf' = [r \in Workers |-> [t_buf[r] EXCEPT ![Slot] = <<batch[r]>>]]
                  /\ t_step' = t_step + 1
                  /\ t_estep' = t_estep
                  /\ t_log' = Append(t_log, [mode |-> "train", step |-> t_step,
                                             global_step |-> GlobalStep,
                                             generated |-> TRUE, slot |-> Slot - 1,
                                             served |-> t_step])
             ELSE /\ t_estep' = t_estep + 1
                  /\ t_log' = Append(t_log, [mode |-> "eval", step |-> t_estep,
                                             global_step |-> GlobalStep,
                                             generated |-> TRUE, slot |-> None,
                                             served |-> t_estep])
                  /\ UNCHANGED <<t_buf, t_step>>
    /\ t_local' = [r \in Workers |-> <<>>]
    /\ UNCHANGED <<t_cfg, t_pc, t_stream, t_estream, t_mode, t_error>>
    /\ TrainFrame

\* lines 679-681: the call returns the buffered batch of its slot
Replay ==
    /\ t_pc = "train"
    /\ t_mode = "train"
    /\ HasBatch
    /\ ~Generating
    /\ t_out' = [r \in Workers |-> t_buf[r][Slot]]
    /\ t_step' = t_step + 1
    /\ t_log' = Append(t_log, [mode |-> "train", step |-> t_step,
                               global_step |-> GlobalStep,
                               generated |-> FALSE, slot |-> Slot - 1,
                               served |-> t_buf[1][Slot][1].episodes[1].step])
    /\ UNCHANGED <<t_cfg, t_pc, t_stream, t_estream, t_local, t_gathered, t_adv, t_std, t_buf,
                   t_mode, t_estep, t_error>>
    /\ TrainFrame

\* the sampler is exhausted
EndOfData ==
    /\ t_pc = "train"
    /\ t_mode = "train"
    /\ ~HasBatch
    /\ t_pc' = "end"
    /\ UNCHANGED <<t_cfg, t_stream, t_estream, t_step, t_local, t_gathered, t_adv, t_std, t_out, t_buf,
                   t_mode, t_estep, t_error, t_log>>
    /\ TrainFrame

TrainNext ==
    \/ InitRaises
    \/ InitTrainer
    \/ \E r \in Workers : LocalRollout(r)
    \/ GatherAndNormalise
    \/ Replay
    \/ EndOfData

TrainSpec == TrainInit /\ [][TrainNext]_vars

----------------------------------------------------------------------------
(* EvalSpec: the runs with evaluation enabled. The training loop sets      *)
(* control.should_evaluate after the first optimizer step, passes once     *)
(* over the eval dataloader, and clears the flag before the next training  *)
(* step.                                                                   *)

\* the runs with evaluation enabled; those that pass validation are kept
\* small: one seed, the same per-device batch size and dataset size in
\* training and evaluation, at most MaxBuffered - MaxGA buffered episodes
EvalConfigs ==
    {c \in AllConfigs :
        /\ c.eval
        /\ FailingCheck(c) = "none" =>
              /\ c.seed = 0
              /\ c.pde = c.pd
              /\ c.N = c.Ne
              /\ c.P * c.pd * c.ga <= MaxBuffered - MaxGA}

EvalInit ==
    /\ t_cfg \in EvalConfigs
    /\ TrainStart

\* the evaluation begins: line 670 reads mode = "eval" from now on
StartEvaluate ==
    /\ t_pc = "train"
    /\ t_cfg.eval
    /\ t_mode = "train"
    /\ t_estep = 0
    /\ t_step = t_cfg.ga
    /\ \A r \in Workers : t_local[r] = <<>>
    /\ t_mode' = "eval"
    /\ UNCHANGED <<t_cfg, t_pc, t_stream, t_estream, t_step, t_local, t_gathered, t_adv, t_std, t_out, t_buf,
                   t_estep, t_error, t_log>>
    /\ TrainFrame

\* the eval dataloader is exhausted: line 670 reads mode = "train" again;
\* the evaluation loop has consumed its last batch
EndEvaluate ==
    /\ t_pc = "train"
    /\ t_mode = "eval"
    /\ ~HasEvalBatch
    /\ \A r \in Workers : t_local[r] = <<>>
    /\ t_mode' = "train"
    /\ t_gathered' = <<>>
    /\ t_adv' = <<>>
    /\ t_std' = <<>>
    /\ t_out' = [r \in Workers |-> <<>>]
    /\ UNCHANGED <<t_cfg, t_pc, t_stream, t_estream, t_step, t_local, t_buf, t_estep, t_error, t_log>>
    /\ TrainFrame

EvalNext ==
    \/ InitRaises
    \/ InitTrainer
    \/ \E r \in Workers : LocalRollout(r)
    \/ GatherAndNormalise
    \/ Replay
    \/ EndOfData
    \/ StartEvaluate
    \/ EndEvaluate

EvalSpec == EvalInit /\ [][EvalNext]_vars

----------------------------------------------------------------------------
(* C2: in training, whenever setup validation passed and the stream is     *)
(* dealt as consecutive per-worker slices, the G entries at positions      *)
(* g*G .. g*G+G-1 of the rank-ordered gathered reward array all come from  *)
(* episodes of the same prompt index, and gathering keeps the order of the *)
(* sampler's stream.                                                       *)

C2_GroupsShareOnePrompt ==
    (t_pc \in {"train", "end"} /\ t_gathered # <<>>) =>
        /\ Len(t_gathered) % t_cfg.G = 0
        /\ \A g \in 0..((Len(t_gathered) \div t_cfg.G) - 1) :
              \A m \in 1..t_cfg.G :
                  t_gathered[g * t_cfg.G + m].prompt = t_gathered[g * t_cfg.G + 1].prompt
        /\ \A j \in 1..Len(t_gathered) :
              /\ t_gathered[j].rank = ((j - 1) \div t_cfg.pd) + 1
              /\ t_gathered[j].pos = ((j - 1) % t_cfg.pd) + 1
              /\ t_gathered[j].prompt =
                    t_stream[1][t_gathered[j].step * t_cfg.P * t_cfg.pd + j]

\* the second call of a run of two workers has gathered two groups of
\* different prompts, each worker having contributed one whole group
C2_Witness ==
    /\ t_pc = "train"
    /\ t_cfg.P = 2
    /\ t_cfg.pd = 2
    /\ t_cfg.G = 2
    /\ t_step = 2
    /\ Len(t_gathered) = 4
    /\ t_gathered[1].step = 1
    /\ t_gathered[1].rank = 1
    /\ t_gathered[3].rank = 2
    /\ t_gathered[1].prompt # t_gathered[3].prompt

----------------------------------------------------------------------------
(* C10: for every group of G rewards of the gathered array the unscaled    *)
(* advantages (reward minus the group's mean) sum to zero.                 *)

C10_GroupAdvantagesSumToZero ==
    \A g \in 0..((Len(t_adv) \div t_cfg.G) - 1) :
        SumSeq(GroupOf(t_adv, g, t_cfg.G)) = 0

\* two groups with different means, one of them with unequal rewards
C10_Witness ==
    /\ Len(t_adv) = 2 * t_cfg.G
    /\ SumSeq(GroupOf([i \in 1..Len(t_gathered) |-> t_gathered[i].reward], 0, t_cfg.G))
         # SumSeq(GroupOf([i \in 1..Len(t_gathered) |-> t_gathered[i].reward], 1, t_cfg.G))
    /\ \E i \in 1..Len(t_adv) : t_adv[i] # 0

----------------------------------------------------------------------------
(* C11: after gathering and normalisation worker r keeps exactly the       *)
(* advantages of the episodes it produced locally, in local order: the     *)
(* advantage at its local position i is that of the gathered entry of its  *)
(* own i-th episode (all workers hold the same number of episodes).        *)

\* the position in the gathered array of the i-th episode worker r produced
GatheredIndexOf(r, i) ==
    CHOOSE j \in 1..Len(t_gathered) : t_gathered[j].rank = r /\ t_gathered[j].pos = i

\* the batch the last call returned to worker r is the one just generated
ReturnedFresh(r) ==
    /\ t_pc \in {"train", "end"}
    /\ t_out[r] # <<>>
    /\ t_gathered # <<>>
    /\ t_out[r][1].episodes[1].step = t_gathered[1].step

C11_WorkerKeepsOwnAdvantages ==
    \A r \in 1..Len(t_out) :
        ReturnedFresh(r) =>
            /\ Len(t_out[r][1].advantages) = Len(t_out[r][1].episodes)
            /\ \A i \in 1..Len(t_out[r][1].episodes) :
                  /\ t_gathered[GatheredIndexOf(r, i)] = t_out[r][1].episodes[i]
                  /\ t_out[r][1].advantages[i] = t_adv[GatheredIndexOf(r, i)]

\* two workers of two episodes each, the second keeping advantages that
\* differ from the first's
C11_Witness ==
    /\ t_cfg.P = 2
    /\ t_cfg.pd = 2
    /\ ReturnedFresh(2)
    /\ t_out[2][1].advantages # t_out[1][1].advantages
    /\ t_out[2][1].advantages[1] # t_out[2][1].advantages[2]

----------------------------------------------------------------------------
(* C12: in train mode _prepare_inputs generates only on calls where        *)
(* global_step % K = 0 and stores the batch in buffer slot _step % ga; on  *)
(* every other call it returns that slot's buffered batch verbatim without *)
(* generating. Each generated batch so serves K optimizer steps (one fresh *)
(* and K-1 replays) and its slot is overwritten at the next generating     *)
(* step. In eval mode every call generates, and the buffer and _step are   *)
(* left alone.                                                             *)

TrainCalls == {k \in 1..Len(t_log) : t_log[k].mode = "train"}

C12_LogInv ==
    /\ \A k \in TrainCalls :
          LET e == t_log[k]
          IN /\ e.generated <=> (e.global_step % t_cfg.K = 0)
             /\ e.slot = e.step % t_cfg.ga
             /\ e.generated => e.served = e.step
    /\ \A k, l \in TrainCalls :
          LET e == t_log[k]
              f == t_log[l]
          IN e.generated =>
                /\ \A j \in 1..(t_cfg.K - 1) :
                      f.step = e.step + j * t_cfg.ga
                          => (~f.generated /\ f.served = e.step /\ f.slot = e.slot)
                /\ f.step = e.step + t_cfg.K * t_cfg.ga
                      => (f.generated /\ f.slot = e.slot)
                /\ f.served = e.step
                      => \E j \in 0..(t_cfg.K - 1) : f.step = e.step + j * t_cfg.ga
    /\ \A k \in 1..Len(t_log) : t_log[k].mode = "eval" => t_log[k].generated

C12_CallEffect ==
    /\ t_mode = "eval" => (t_buf' = t_buf /\ t_step' = t_step)
    /\ Len(t_log') = Len(t_log) + 1 =>
          LET e == t_log'[Len(t_log')]
          IN /\ (e.mode = "train" /\ ~e.generated) =>
                   /\ t_out' = [r \in Workers |-> t_buf[r][e.slot + 1]]
                   /\ t_buf' = t_buf
                   /\ t_gathered' = t_gathered
                   /\ t_adv' = t_adv
                   /\ t_step' = t_step + 1
             /\ (e.mode = "train" /\ e.generated) =>
                   /\ \A r \in Workers :
                         /\ t_out'[r][1].episodes[1].step = t_step
                         /\ t_out'[r][1].episodes[1].mode = "train"
                         /\ t_buf'[r] = [t_buf[r] EXCEPT ![e.slot + 1] = t_out'[r]]
                   /\ t_step' = t_step + 1
             /\ e.mode = "eval" =>
                   /\ \A r \in Workers : t_out'[r][1].episodes[1].mode = "eval"
                   /\ t_buf' = t_buf
                   /\ t_step' = t_step

C12_GenerateEveryKSteps == [](C12_LogInv) /\ [][C12_CallEffect]_vars

\* a run with K = 2 that generated, evaluated, replayed the buffered batch
\* and then generated again into the same slot
C12_Witness ==
    /\ t_cfg.K = 2
    /\ \E k, l, m, n \in 1..Len(t_log) :
          /\ k < l /\ l < m /\ m < n
          /\ t_log[k].mode = "train" /\ t_log[k].generated
          /\ t_log[l].mode = "eval"
          /\ t_log[m].mode = "train" /\ ~t_log[m].generated
          /\ t_log[m].served = t_log[k].step
          /\ t_log[n].mode = "train" /\ t_log[n].generated
          /\ t_log[n].slot = t_log[k].slot

----------------------------------------------------------------------------
(* C14: construction raises an error, before any rollout, whenever         *)
(* num_generations does not evenly divide the global train batch size      *)
(* (per_device_train_batch_size x num_processes), and likewise for the     *)
(* global eval batch size when evaluation is enabled; the error reports    *)
(* the valid values.                                                       *)

Divides(g, n) == g > 0 /\ n % g = 0

NothingRolledOut ==
    /\ t_log = <<>>
    /\ t_local = <<>>
    /\ t_gathered = <<>>
    /\ t_stream = <<>>
    /\ t_step = 0

C14_IndivisibleBatchRaises ==
    LET train == t_cfg.pd * t_cfg.P
        eval == t_cfg.pde * t_cfg.P
    IN /\ (t_pc # "new" /\ ~Divides(t_cfg.G, train)) =>
             /\ t_pc = "error"
             /\ t_error = <<[type |-> "ValueError", batch |-> "train",
                             num_generations |-> t_cfg.G,
                             possible_values |-> {g \in 2..train : Divides(g, train)}]>>
       /\ (t_pc # "new" /\ t_cfg.eval /\ ~Divides(t_cfg.G, eval)) =>
             /\ t_pc = "error"
             /\ Divides(t_cfg.G, train) =>
                   t_error = <<[type |-> "ValueError", batch |-> "eval",
                                num_generations |-> t_cfg.G,
                                possible_values |-> {g \in 2..eval : Divides(g, eval)}]>>
       /\ t_pc = "error" => NothingRolledOut

\* construction failed on the eval batch size alone, with a non-empty list
\* of valid values in the error
C14_Witness ==
    /\ t_pc = "error"
    /\ Divides(t_cfg.G, t_cfg.pd * t_cfg.P)
    /\ t_cfg.G >= 2
    /\ t_error[1].batch = "eval"
    /\ t_error[1].possible_values # {}

----------------------------------------------------------------------------
(* C27: with global_step starting at 0 and advancing after every           *)
(* gradient_accumulation_steps calls, every replay call reads a buffer     *)
(* slot that was written before, and the batch it returns was generated    *)
(* from exactly the prompt indices, in the same order, that the sampler    *)
(* delivers for that call.                                                 *)

\* this step is a train call of _prepare_inputs that does not generate
C27_ReplayCall ==
    /\ t_pc = "train"
    /\ t_mode = "train"
    /\ t_step' = t_step + 1
    /\ (t_step \div t_cfg.ga) % t_cfg.K # 0

\* the prompt indices of the episodes of a batch
C27_Prompts(batch) == [i \in 1..Len(batch.episodes) |-> batch.episodes[i].prompt]

C27_Step ==
    C27_ReplayCall =>
        \A r \in Workers :
            /\ t_buf[r][(t_step % t_cfg.ga) + 1] # <<>>
            /\ Len(t_out'[r]) = 1
            /\ C27_Prompts(t_out'[r][1]) = DealtSlice(t_stream[r], t_cfg, t_step, r)
            /\ Len(t_out'[r][1].advantages) = t_cfg.pd
            /\ \A i \in 1..Len(t_out'[r][1].episodes) :
                  /\ t_out'[r][1].episodes[i].rank = r
                  /\ t_out'[r][1].episodes[i].step < t_step

C27_ReplayMatchesSampler == [][C27_Step]_vars

\* two workers, two accumulation steps and two iterations: the fourth call
\* replayed the batch the second call had generated
C27_Witness ==
    /\ t_cfg.P = 2
    /\ t_cfg.ga = 2
    /\ t_cfg.K = 2
    /\ Len(t_log) = 4
    /\ ~t_log[4].generated
    /\ t_log[4].served = 1
    /\ t_out[2] # <<>>
    /\ t_out[2][1].episodes[1].step = 1

----------------------------------------------------------------------------
(* C28: setup validation accepts num_generations G only if 2 <= G <= the   *)
(* global batch size and G divides it; G = 1 is rejected although it       *)
(* divides every batch size, so every group that is ever normalised has at *)
(* least two members.                                                      *)

\* the members of group g (0-based) of the gathered episodes
C28_Group(g) == {i \in 1..Len(t_gathered) : (i - 1) \div t_cfg.G = g}

C28_GroupsOfTwoOrMore ==
    LET train == t_cfg.pd * t_cfg.P
    IN /\ t_pc \in {"train", "end"} =>
             /\ 2 <= t_cfg.G
             /\ t_cfg.G <= train
             /\ train % t_cfg.G = 0
       /\ (t_cfg.G = 1 /\ t_pc # "new") =>
             /\ t_pc = "error"
             /\ t_error[1].batch = "train"
             /\ 1 \notin t_error[1].possible_values
       /\ t_adv # <<>> =>
             /\ Len(t_adv) = Len(t_gathered)
             /\ \A i \in 1..Len(t_gathered) :
                   Cardinality(C28_Group((i - 1) \div t_cfg.G)) >= 2

\* construction was refused for G = 1 with a global batch of 4
C28_Witness ==
    /\ t_pc = "error"
    /\ t_cfg.G = 1
    /\ t_cfg.pd * t_cfg.P = 4
    /\ t_error[1].possible_values = {2, 4}

----------------------------------------------------------------------------
(* C23: the standard deviation that scales the advantages of a group is    *)
(* the standard deviation of the group's G rewards.  As stated            *)
(* (C23_PopulationStd): the population one, the squared deviations from    *)
(* the group mean summed and divided by G.  As the code computes it        *)
(* (C23_SampleStd): the sample one, the sum divided by G - 1, so the       *)
(* scaled advantage is (reward - group mean) / (sample std + epsilon).     *)

\* the gathered episodes of the group of episode i
C23_Members(i) ==
    {k \in 1..Len(t_gathered) : (k - 1) \div t_cfg.G = (i - 1) \div t_cfg.G}

RECURSIVE C23_Sum(_, _)
C23_Sum(S, f) ==
    IF S = {} THEN 0
    ELSE LET x == CHOOSE y \in S : TRUE IN f[x] + C23_Sum(S \ {x}, f)

\* G * G times the sum of the squared deviations of the rewards of episode
\* i's group from their mean
C23_SquaredDeviations(i) ==
    LET r == [k \in 1..Len(t_gathered) |-> t_gathered[k].reward]
        total == C23_Sum(C23_Members(i), r)
        sq == [k \in 1..Len(t_gathered) |->
                  (t_cfg.G * r[k] - total) * (t_cfg.G * r[k] - total)]
    IN C23_Sum(C23_Members(i), sq)

\* the std of every episode's group squares to the fraction of the squared
\* deviations over `divisor`
C23_StdDividesBy(divisor) ==
    /\ Len(t_std) = Len(t_adv)
    /\ \A i \in 1..Len(t_std) :
          /\ t_std[i].den > 0
          /\ t_std[i].num * (t_cfg.G * t_cfg.G * divisor)
               = C23_SquaredDeviations(i) * t_std[i].den

C23_PopulationStd == C23_StdDividesBy(t_cfg.G)

C23_SampleStd == C23_StdDividesBy(t_cfg.G - 1)

\* a normalised group of two episodes with different rewards
C23_Witness ==
    /\ t_cfg.G = 2
    /\ t_std # <<>>
    /\ t_gathered[1].reward # t_gathered[2].reward
    /\ t_std[1].num > 0

----------------------------------------------------------------------------
(* MaskSpec: the response mask of one episode (lines 830-845), computed    *)
(* for a drawn row of token ids                                            *)

\* line 837: the two ids that spell "<think"
ThinkOpenFirst == 13708

ThinkOpenSecond == 766

\* line 840: the id of <|im_start|>
ImStart == 151644

\* an id of ordinary text (the line feed that closes a turn)
PlainTokens == {198}

Plain == CHOOSE t \in PlainTokens : TRUE

TokenIds == {ThinkOpenFirst, ThinkOpenSecond, ImStart} \cup PlainTokens

\* the ids of the prompt, which ends with the generation prompt
\* <|im_start|>assistant\n of the first round (line 707 with i = 0); the user
\* turn before it is empty or quotes "<think"
MaskPrompts ==
    {<<ImStart, Plain>>, <<ThinkOpenFirst, ThinkOpenSecond, ImStart, Plain>>}

\* the ids behind the prompt: anything the rounds appended
MaskBodies == UNION {[1..k -> TokenIds] : k \in 0..MaxIds}

MaskInit ==
    /\ SamplerIdle
    /\ SearchIdle
    /\ RolloutIdle
    /\ TrainIdle
    /\ LossIdle
    /\ \E prompt \in MaskPrompts, body \in MaskBodies, cut \in 0..MaxCut :
          LET full == prompt \o body \o <<Plain>>
          IN /\ m_row = SubSeq(full, cut + 1, Len(full))
             /\ m_plen = Len(prompt)
             /\ m_cut = cut
             /\ m_plen < Len(full) - cut
    /\ m_mask = <<>>

MaskStepClosingExcluded(row, j, mask) ==
    IF row[j] = ThinkOpenFirst /\ row[j + 1] = ThinkOpenSecond
    THEN [out |-> TRUE, mask |-> TRUE]
    ELSE IF row[j] = ImStart
    THEN [out |-> FALSE, mask |-> FALSE]
    ELSE [out |-> mask, mask |-> mask]

\* lines 837-845: one pass of the loop over j (1-based here): the mask
\* entry written and the flag carried on
MaskStep(row, j, mask) ==
    IF row[j] = ThinkOpenFirst /\ row[j + 1] = ThinkOpenSecond
    THEN [out |-> TRUE, mask |-> TRUE]
    ELSE IF row[j] = ImStart
    THEN [out |-> mask, mask |-> FALSE]
    ELSE [out |-> mask, mask |-> mask]

\* line 836: for j in range(prompt_length, responses.shape[1])
RECURSIVE MaskFrom(_, _, _)
MaskFrom(row, j, mask) ==
    IF j > Len(row) THEN <<>>
    ELSE LET s == MaskStep(row, j, mask)
         IN <<s.out>> \o MaskFrom(row, j + 1, s.mask)

\* lines 832-845: response_masks[i] for responses[i] = row
ResponseMask(row, plen) == MaskFrom(row, plen + 1, FALSE)

ComputeMask ==
    /\ m_mask = <<>>
    /\ m_row # <<>>
    /\ m_mask' = <<ResponseMask(m_row, m_plen)>>
    /\ UNCHANGED <<m_row, m_plen, m_cut>>
    /\ UNCHANGED <<samplerVars, searchVars, rolloutVars, trainVars, lossVars>>

MaskNext == ComputeMask

MaskSpec == MaskInit /\ [][MaskNext]_vars

----------------------------------------------------------------------------
(* C30: the response mask at a position j at or after the prompt length    *)
(* is true iff j lies in a span that starts at a token 13708 immediately   *)
(* followed by 766 and ends at the next 151644, that token included; every *)
(* token outside such spans (the tool output appended behind an            *)
(* <|im_start|> among them) is masked out of the loss.                     *)

\* position s of the row opens a span that still covers position j
C30_Covers(s, j) ==
    /\ s <= j
    /\ m_row[s] = ThinkOpenFirst
    /\ s < Len(m_row)
    /\ m_row[s + 1] = ThinkOpenSecond
    /\ \A c \in s..(j - 1) : m_row[c] # ImStart

C30_MaskIsThinkSpans ==
    m_mask # <<>> =>
        /\ Len(m_mask[1]) = Len(m_row) - m_plen
        /\ \A k \in 1..Len(m_mask[1]) :
              /\ m_mask[1][k] <=>
                    \E s \in (m_plen + 1)..(m_plen + k) : C30_Covers(s, m_plen + k)
              /\ m_cut = 0 =>
                    (m_mask[1][k] <=> \E s \in 1..(m_plen + k) : C30_Covers(s, m_plen + k))

\* a "<think" span closed by <|im_start|>, then tool output: the span and
\* its closing token are in the loss, the tool output is not
C30_Witness ==
    /\ m_row = <<ImStart, Plain, ThinkOpenFirst, ThinkOpenSecond, Plain, ImStart, Plain, Plain>>
    /\ m_plen = 2
    /\ m_mask = << <<TRUE, TRUE, TRUE, TRUE, FALSE, FALSE>> >>

----------------------------------------------------------------------------
(* LossSpec: compute_loss (lines 1034-1070) on a drawn batch.  Log         *)
(* probabilities are integers, exp() and the clipping bounds are in        *)
(* hundredths, the scalar loss is kept as an exact fraction.               *)

Max(a, b) == IF a >= b THEN a ELSE b

\* torch.exp, in hundredths, on the differences of log probabilities that
\* occur (-1, 0, 1)
ExpH(x) == CASE x = 0 - 1 -> 37 [] x = 0 -> 100 [] x = 1 -> 272

\* torch.clamp(x, lo, hi)
Clamp(x, lo, hi) == Min(Max(x, lo), hi)

\* the batch sizes compute_loss is given
LossBatches == {1, 2}

\* num_iterations and beta of the drawn runs
LossIterations == {1, 2}

LossBetas == {0, 1}

\* (epsilon, epsilon_high) in hundredths (lines 418-419)
EpsPairs == {<<0, 0>>, <<20, 20>>, <<20, 28>>}

\* the advantages and the log probabilities an episode may have
AdvValues == {0 - 2, 3}

LogpValues == {0 - 1, 0}

\* a tensor of n rows of len entries, each row filled with its level
Rows(levels, len) == [i \in 1..Len(levels) |-> [t \in 1..len |-> levels[i]]]

LossInit ==
    /\ SamplerIdle
    /\ SearchIdle
    /\ RolloutIdle
    /\ TrainIdle
    /\ MaskIdle
    /\ \E n \in LossBatches, len \in 1..MaxLossLen, K \in LossIterations,
          beta \in LossBetas, eps \in EpsPairs :
          \E adv \in [1..n -> AdvValues], mask \in [1..n -> [1..len -> BOOLEAN]],
             logp \in [1..n -> LogpValues],
             old \in (IF K > 1 THEN [1..n -> LogpValues] ELSE {<<>>}),
             ref \in (IF beta # 0 THEN [1..n -> LogpValues] ELSE {<<>>}) :
             l_in = [num_iterations |-> K, beta |-> beta,
                     epsilon_low |-> eps[1], epsilon_high |-> eps[2],
                     advantages |-> adv,
                     response_masks |-> mask,
                     per_token_logps |-> Rows(logp, len),
                     old_per_token_logps |-> Rows(old, len),
                     ref_per_token_logps |-> Rows(ref, len)]
    /\ l_out = <<>>

\* x * response_masks
Masked(x, mask) ==
    [i \in 1..Len(x) |-> [t \in 1..Len(x[i]) |-> IF mask[i][t] THEN x[i][t] ELSE 0]]

\* lines 1051-1053: exp(ref - logp) - (ref - logp) - 1, in hundredths
PerTokenKL(ref, logp) ==
    [i \in 1..Len(logp) |-> [t \in 1..Len(logp[i]) |->
        ExpH(ref[i][t] - logp[i][t]) - 100 * (ref[i][t] - logp[i][t]) - 100]]

\* line 1062: the old policy's log probabilities
OldLogps(in, logp) == IF in.num_iterations > 1 THEN in.old_per_token_logps ELSE logp

\* lines 1063-1069: the per-token loss, in hundredths
PerTokenLoss(in) ==
    LET logp == Masked(in.per_token_logps, in.response_masks)
        old == OldLogps(in, logp)
    IN [i \in 1..Len(logp) |-> [t \in 1..Len(logp[i]) |->
          LET coef_1 == ExpH(logp[i][t] - old[i][t])
              coef_2 == Clamp(coef_1, 100 - in.epsilon_low, 100 + in.epsilon_high)
              clipped == 0 - Min(coef_1 * in.advantages[i], coef_2 * in.advantages[i])
          IN IF in.beta # 0
             THEN clipped + in.beta *
                    PerTokenKL(Masked(in.ref_per_token_logps, in.response_masks), logp)[i][t]
             ELSE clipped]]

RECURSIVE Factorial(_)
Factorial(n) == IF n <= 1 THEN 1 ELSE n * Factorial(n - 1)

\* the number of TRUE entries
CountTrue(row) == Len(SelectSeq(row, LAMBDA b : b))

LossReduceOverTokens(loss, mask) ==
    [num |-> SumSeq([i \in 1..Len(loss) |-> SumSeq(Masked(loss, mask)[i])]),
     den |-> Max(SumSeq([i \in 1..Len(mask) |-> CountTrue(mask[i])]), 1)]

\* line 1070: ((loss * mask).sum(-1) / mask.sum(-1).clamp(min=1.0)).mean(),
\* as the fraction num/den over the common denominator n * len!
LossReduce(loss, mask) ==
    LET len == Len(mask[1])
    IN [num |-> SumSeq([i \in 1..Len(loss) |->
                   SumSeq(Masked(loss, mask)[i])
                     * (Factorial(len) \div Max(CountTrue(mask[i]), 1))]),
        den |-> Len(loss) * Factorial(len)]

\* lines 1058-1070
ComputeLoss ==
    /\ l_out = <<>>
    /\ l_in # <<>>
    /\ l_out' = <<[per_token_loss |-> PerTokenLoss(l_in),
                   loss |-> LossReduce(PerTokenLoss(l_in), l_in.response_masks)]>>
    /\ UNCHANGED l_in
    /\ UNCHANGED <<samplerVars, searchVars, rolloutVars, trainVars, maskVars>>

LossNext == ComputeLoss

LossSpec == LossInit /\ [][LossNext]_vars

----------------------------------------------------------------------------
(* C24: with num_iterations = 1 the ratio is 1 for every token, so with    *)
(* beta = 0 the per-token loss of every masked token is minus the          *)
(* episode's advantage, for any clipping bounds >= 0, and the scalar loss  *)
(* is the mean over the episodes of minus the advantage, an episode with   *)
(* an empty response mask contributing 0.                                  *)

\* what episode i contributes to the mean
C24_Contribution(i) ==
    IF \E t \in 1..Len(l_in.response_masks[i]) : l_in.response_masks[i][t]
    THEN 0 - l_in.advantages[i]
    ELSE 0

C24_OnPolicyLossIsMinusAdvantage ==
    (l_out # <<>> /\ l_in.num_iterations = 1 /\ l_in.beta = 0) =>
        LET n == Len(l_in.advantages)
        IN /\ \A i \in 1..n : \A t \in 1..Len(l_in.response_masks[i]) :
                 l_in.response_masks[i][t] =>
                     l_out[1].per_token_loss[i][t] = 0 - 100 * l_in.advantages[i]
           /\ l_out[1].loss.den > 0
           /\ l_out[1].loss.num * n
                = 100 * SumSeq([i \in 1..n |-> C24_Contribution(i)]) * l_out[1].loss.den

\* two episodes under clipping bounds of 0.2: one with a negative advantage
\* and one masked token of two, one with an empty mask
C24_Witness ==
    /\ l_out # <<>>
    /\ l_in.num_iterations = 1
    /\ l_in.beta = 0
    /\ l_in.epsilon_low = 20
    /\ l_in.advantages = <<0 - 2, 3>>
    /\ l_in.response_masks = <<<<TRUE, FALSE>>, <<FALSE, FALSE>>>>
    /\ l_out[1].loss = [num |-> 400, den |-> 4]

====
